---- MODULE Spec2Model ----
(***************************************************************************)
(* Model of the geoApi layer records: the late-bound LayerInterface proxy, *)
(* the sub-config defaulting of DynamicRecord.onLoad, the descriptor tree  *)
(* and Feature-Class States it builds, and the promise callbacks that      *)
(* write layer type, geometry type and feature count after it.             *)
(***************************************************************************)
EXTENDS Integers, Sequences, FiniteSets, TLC

VARIABLES
    layerInfos,        \* this._layer.layerInfos of the dynamic layer (server hierarchy)
    config,            \* this.config.layerEntries
    configIsComplete,  \* this._configIsComplete
    attribIndexes,     \* attributeBundle.indexes, as loadLayerAttribs reports them
    proxies,           \* this._proxies: string index -> handle reference (0: none)
    handles,           \* heap of LayerInterface objects, a reference is a position
    pfcs,              \* heap of PlaceholderFC objects
    featClasses,       \* this._featClasses: string index -> DynamicFC
    subConfigs,        \* the subConfigs table of onLoad
    childTree,         \* this._childTree
    treeBuilt,         \* TRUE once this._childTree is assigned
    visCalls,          \* the argument lists of this._layer.setVisibleLayers calls
    lastCall,          \* the last call made on the record and how it ended
    issued,            \* history: the handle getChildProxy created per index, and when
    li,                \* a LayerInterface used on its own
    liKind,            \* history: the last convertTo* applied to li
    rootProxy,         \* SimpleRecord._rootProxy
    fetchHist,         \* history: per index, the configs fetchSubConfig returned
    lastFetch,         \* history: the last fetchSubConfig call
    refine,            \* per Feature-Class State: its layer-data and feature-count promises
    lastRefine,        \* history: the last promise settled and the table before it
    treeRet,           \* what the last getChildTree call returned
    query,             \* the last per-index query made on the record and its answer
    basicFC,           \* a BasicFC used on its own: scale set, url, symbology, legend fetch
    wmsFC,             \* a WmsFC used on its own: server catalog, entries, symbology
    ident,             \* one DynamicRecord.identify call: buckets, promise, pending hits
    simpleRec,         \* a SimpleRecord: its hover listeners and the last call on them
    featRec,           \* a FeatureRecord: root handle, count, geometry type, hover events
    copies             \* onLoad's sub-config collation at the level of object references

vars == <<layerInfos, config, configIsComplete, attribIndexes, proxies, handles,
          pfcs, featClasses, subConfigs, childTree, treeBuilt, visCalls, lastCall,
          issued, li, liKind, rootProxy, fetchHist, lastFetch, refine,
          lastRefine, treeRet, query, basicFC, wmsFC, ident, simpleRec,
          featRec, copies>>

recordVars == <<layerInfos, attribIndexes, proxies, handles, pfcs, featClasses,
                childTree, treeBuilt, visCalls, issued>>
liVars == <<li, liKind, rootProxy>>
fetchVars == <<fetchHist, lastFetch>>
refineVars == <<refine, lastRefine, treeRet>>
moreVars == <<simpleRec, featRec, copies>>
auxVars == <<query, basicFC, wmsFC, ident, simpleRec, featRec, copies>>

(***************************************************************************)
(* Bounds and input sets                                                   *)
(***************************************************************************)
MaxEntries == 2
MaxRequests == 2
MaxFetch == 2

Ids == 0..4
CfgIds == {1, 2, 3}
ReqIds == {0, 2, 3}

Digits == <<"0", "1", "2", "3", "4", "5", "6", "7", "8", "9">>
SrvNames == <<"srv0", "srv1", "srv2", "srv3", "srv4">>
CfgNames == <<"cfg0", "cfg1", "cfg2", "cfg3", "cfg4">>

toString(i) == Digits[i + 1]
parseInt(s) == CHOOSE i \in 0..9 : Digits[i + 1] = s
StrIds == {toString(i) : i \in Ids}

EmptyMap == [x \in {} |-> x]

(***************************************************************************)
(* LayerInterface                                                          *)
(***************************************************************************)
OpNames == {"symbology", "name", "layerType", "geometryType", "featureCount",
            "extent", "state", "visibility", "opacity", "query", "snapshot",
            "formattedAttributes", "setVisibility", "setOpacity", "setQuery",
            "setSnapshot", "zoomToBoundary"}

NullSource == [kind |-> "null", id |-> 0]
RecordSource == [kind |-> "record", id |-> 0]
PfcSource(k) == [kind |-> "pfc", id |-> k]
DfcSource(idx) == [kind |-> "dfc", id |-> parseInt(idx)]

\* every property and method starts as the error-throwing stub of the class
LayerInterface(source) ==
    [source |-> source,
     isPlaceholder |-> TRUE,
     ops |-> [o \in OpNames |-> "iAmError"]]

newProp(target, propName, getter) ==
    [target EXCEPT !.ops[propName] = getter]

RECURSIVE newProps(_, _, _)
newProps(target, propNames, getter) ==
    IF propNames = {} THEN target
    ELSE LET p == CHOOSE x \in propNames : TRUE
         IN newProps(newProp(target, p, getter), propNames \ {p}, getter)

updateSource(h, newSource) ==
    [h EXCEPT !.source = newSource]

convertToSingleLayer(h, layerRecord) ==
    newProps([h EXCEPT !.source = layerRecord, !.isPlaceholder = FALSE],
             {"symbology", "state", "visibility", "opacity", "query", "name",
              "geometryType", "layerType", "featureCount", "extent",
              "setVisibility", "setOpacity", "setQuery", "zoomToBoundary"},
             "standard")

\* faulty variant: the feature getters are not installed
convertToFeatureLayer_Single(h, layerRecord) == convertToSingleLayer(h, layerRecord)

convertToFeatureLayer(h, layerRecord) ==
    LET s == convertToSingleLayer(h, layerRecord)
        f == newProps(s, {"snapshot", "geometryType", "featureCount", "setSnapshot"},
                      "feature")
    IN newProp(f, "formattedAttributes", "standard")

DynamicLeafOps == {"symbology", "state", "name", "visibility", "opacity", "query",
                   "formattedAttributes", "geometryType", "layerType",
                   "featureCount", "extent", "setVisibility", "setOpacity",
                   "setQuery", "zoomToBoundary"}

convertToDynamicLeaf_NoName(h, dynamicFC) ==
    newProps([h EXCEPT !.source = dynamicFC, !.isPlaceholder = FALSE],
             DynamicLeafOps \ {"name"}, "dynamicLeaf")

\* faulty variant: the operations are replaced but the old source is kept
convertToDynamicLeaf_KeepSource(h, dynamicFC) ==
    newProps([h EXCEPT !.isPlaceholder = FALSE], DynamicLeafOps, "dynamicLeaf")

convertToDynamicLeaf(h, dynamicFC) ==
    newProps([h EXCEPT !.source = dynamicFC, !.isPlaceholder = FALSE],
             {"symbology", "state", "name", "visibility", "opacity", "query",
              "formattedAttributes", "geometryType", "layerType", "featureCount",
              "extent", "setVisibility", "setOpacity", "setQuery",
              "zoomToBoundary"},
             "dynamicLeaf")

convertToPlaceholder(h, placeholderFC) ==
    newProps([h EXCEPT !.source = placeholderFC, !.isPlaceholder = TRUE],
             {"symbology", "name", "state", "layerType"}, "standard")

\* the class defines no convertToSimpleLayer: calling it is a TypeError
LayerInterfaceMethods == {"updateSource", "convertToSingleLayer",
                          "convertToFeatureLayer", "convertToDynamicLeaf",
                          "convertToPlaceholder"}

(***************************************************************************)
(* Configuration entries and sub-config defaulting (DynamicRecord.onLoad)  *)
(***************************************************************************)
\* an entry keeps, in has, which of its optional properties are its own;
\* a property that is not its own holds the filler below
NoState == [opacity |-> 0, visibility |-> FALSE, query |-> FALSE]
Optional == {"name", "outfields", "state", "stateOnly"}

EntryShapes(i) ==
    { [index |-> i, name |-> "", outfields |-> "", state |-> NoState,
       stateOnly |-> FALSE, has |-> {}],
      [index |-> i, name |-> "", outfields |-> "", state |-> NoState,
       stateOnly |-> TRUE, has |-> {"stateOnly"}],
      [index |-> i, name |-> CfgNames[i + 1], outfields |-> "fieldA",
       state |-> [opacity |-> 0, visibility |-> TRUE, query |-> TRUE],
       stateOnly |-> FALSE, has |-> {"name", "outfields", "state"}],
      [index |-> i, name |-> CfgNames[i + 1], outfields |-> "fieldA",
       state |-> [opacity |-> 0, visibility |-> FALSE, query |-> TRUE],
       stateOnly |-> TRUE, has |-> {"name", "outfields", "state", "stateOnly"}] }

Entries == UNION {EntryShapes(i) : i \in CfgIds}

IsComplete(le) == {"name", "outfields", "state"} \subseteq le.has

\* layerEntries lists: at most MaxEntries entries, no index twice
Configs ==
    UNION { { c \in [1..n -> Entries] :
                \A j, k \in 1..n : j # k => c[j].index # c[k].index } :
            n \in 0..MaxEntries }

\* the constructor's configIsComplete may be set only for a fully formed config
ConfigInputs ==
    { [layerEntries |-> c, complete |-> b] : c \in Configs, b \in BOOLEAN } \
    { x \in [layerEntries : Configs, complete : {TRUE}] :
         \E k \in DOMAIN x.layerEntries : ~IsComplete(x.layerEntries[k]) }

dummyState == [opacity |-> 1, visibility |-> FALSE, query |-> FALSE]

\* JSON.parse(JSON.stringify(le)): a copy with the entry's own properties
jsonCopy(le) ==
    [index |-> le.index,
     name |-> IF "name" \in le.has THEN le.name ELSE "",
     outfields |-> IF "outfields" \in le.has THEN le.outfields ELSE "",
     state |-> IF "state" \in le.has THEN le.state ELSE NoState,
     stateOnly |-> IF "stateOnly" \in le.has THEN le.stateOnly ELSE FALSE,
     has |-> le.has]

collateSubConfigs(layerEntries, complete) ==
    [id \in {toString(layerEntries[k].index) : k \in DOMAIN layerEntries} |->
        LET last == CHOOSE k \in DOMAIN layerEntries :
                        /\ toString(layerEntries[k].index) = id
                        /\ \A j \in DOMAIN layerEntries :
                              toString(layerEntries[j].index) = id => j <= k
        IN [config |-> jsonCopy(layerEntries[last]), defaulted |-> complete]]

newSubConfig(id, serverName) ==
    [name |-> serverName, state |-> dummyState, outfields |-> "*",
     index |-> parseInt(id), stateOnly |-> TRUE,
     has |-> {"name", "state", "outfields", "stateOnly"}]

\* the defaulting of an entry that is in the table and not yet defaulted
fillBlanks(c, serverName) ==
    LET c1 == [c EXCEPT !.state = dummyState, !.has = @ \cup {"state"}]
        c2 == IF "outfields" \notin c1.has
              THEN [c1 EXCEPT !.outfields = "*", !.has = @ \cup {"outfields"}]
              ELSE c1
    IN IF c2.name = ""
       THEN [c2 EXCEPT !.name = serverName, !.has = @ \cup {"name"}]
       ELSE c2

\* faulty variants of fetchSubConfig: the entry is not marked, outfields is
\* always overwritten, a created config is not stateOnly
fetchSubConfig_NoMark(sc, id, serverName) ==
    IF id \in DOMAIN sc
    THEN IF ~sc[id].defaulted
         THEN LET c == fillBlanks(sc[id].config, serverName)
              IN [subConfigs |-> [sc EXCEPT ![id].config = c], ret |-> c]
         ELSE [subConfigs |-> sc, ret |-> sc[id].config]
    ELSE LET newConfig == newSubConfig(id, serverName)
         IN [subConfigs |-> (id :> [config |-> newConfig, defaulted |-> TRUE]) @@ sc,
             ret |-> newConfig]

fetchSubConfig_AllOutfields(sc, id, serverName) ==
    IF id \in DOMAIN sc
    THEN IF ~sc[id].defaulted
         THEN LET c == [fillBlanks(sc[id].config, serverName) EXCEPT
                            !.outfields = "*"]
              IN [subConfigs |-> [sc EXCEPT ![id] = [config |-> c, defaulted |-> TRUE]],
                  ret |-> c]
         ELSE [subConfigs |-> sc, ret |-> sc[id].config]
    ELSE LET newConfig == newSubConfig(id, serverName)
         IN [subConfigs |-> (id :> [config |-> newConfig, defaulted |-> TRUE]) @@ sc,
             ret |-> newConfig]

fetchSubConfig_NotStateOnly(sc, id, serverName) ==
    IF id \in DOMAIN sc
    THEN IF ~sc[id].defaulted
         THEN LET c == fillBlanks(sc[id].config, serverName)
              IN [subConfigs |-> [sc EXCEPT ![id] = [config |-> c, defaulted |-> TRUE]],
                  ret |-> c]
         ELSE [subConfigs |-> sc, ret |-> sc[id].config]
    ELSE LET newConfig == [newSubConfig(id, serverName) EXCEPT !.stateOnly = FALSE]
         IN [subConfigs |-> (id :> [config |-> newConfig, defaulted |-> TRUE]) @@ sc,
             ret |-> newConfig]

\* returns the config for id and the table as the call leaves it
fetchSubConfig(sc, id, serverName) ==
    IF id \in DOMAIN sc
    THEN IF ~sc[id].defaulted
         THEN LET c == fillBlanks(sc[id].config, serverName)
              IN [subConfigs |-> [sc EXCEPT ![id] = [config |-> c, defaulted |-> TRUE]],
                  ret |-> c]
         ELSE [subConfigs |-> sc, ret |-> sc[id].config]
    ELSE LET newConfig == newSubConfig(id, serverName)
         IN [subConfigs |-> (id :> [config |-> newConfig, defaulted |-> TRUE]) @@ sc,
             ret |-> newConfig]


(***************************************************************************)
(* Feature-class objects                                                   *)
(***************************************************************************)
PlaceholderFC(name) == [name |-> name]

\* BasicFC constructor: name is config.name || '', queryable is config.state.query
BasicFC(idx, cfg) ==
    [name |-> cfg.name, idx |-> idx, queryable |-> cfg.state.query]

NoCount == -1
DynamicFC(idx, cfg) ==
    BasicFC(idx, cfg) @@
    [layerType |-> "undefined", geomType |-> "undefined", featureCount |-> NoCount]

\* shared.clientLayerType
ESRI_FEATURE == "esriFeature"
ESRI_RASTER == "esriRaster"
UNKNOWN == "unknown"

serverLayerTypeToClientLayerType(serverType) ==
    CASE serverType = "Feature Layer" -> ESRI_FEATURE
      [] serverType = "Raster Layer" -> ESRI_RASTER
      [] OTHER -> UNKNOWN

\* what the server may answer: a promise is fulfilled with a value or rejected
ServerTypes == {"Feature Layer", "Raster Layer", "Annotation Layer"}
GeomTypes == {"esriGeometryPoint"}
Counts == {0, 7}
NoLayerData == [layerType |-> "", geometryType |-> ""]
LayerDataOutcomes ==
    {[ok |-> TRUE, value |-> [layerType |-> t, geometryType |-> g]] :
        t \in ServerTypes, g \in GeomTypes}
    \cup {[ok |-> FALSE, value |-> NoLayerData]}
CountOutcomes ==
    {[ok |-> TRUE, value |-> c] : c \in Counts} \cup {[ok |-> FALSE, value |-> NoCount]}

\* faulty variant: a rejected layer-data fetch marks the layer type unknown
thenLayerData_OnReject(dFC, outcome) ==
    IF outcome.ok
    THEN LET lt == serverLayerTypeToClientLayerType(outcome.value.layerType)
         IN [dFC EXCEPT !.layerType = lt,
                        !.geomType = IF lt = ESRI_FEATURE
                                     THEN outcome.value.geometryType ELSE @]
    ELSE [dFC EXCEPT !.layerType = UNKNOWN]

\* faulty variant: the geometry type is written whatever the layer type
thenLayerData_AlwaysGeom(dFC, outcome) ==
    IF outcome.ok
    THEN [dFC EXCEPT !.layerType = serverLayerTypeToClientLayerType(outcome.value.layerType),
                     !.geomType = outcome.value.geometryType]
    ELSE dFC

\* dFC.getLayerData().then(ld => ...): the callback runs only when the
\* promise is fulfilled; there is no rejection handler
thenLayerData(dFC, outcome) ==
    IF outcome.ok
    THEN LET lt == serverLayerTypeToClientLayerType(outcome.value.layerType)
         IN [dFC EXCEPT !.layerType = lt,
                        !.geomType = IF lt = ESRI_FEATURE
                                     THEN outcome.value.geometryType ELSE @]
    ELSE dFC

\* this.getFeatureCount(idx).then(fc => ...)
thenFeatureCount(dFC, outcome) ==
    IF outcome.ok THEN [dFC EXCEPT !.featureCount = outcome.value] ELSE dFC

\* a promise of the Feature-Class loop: how it settled, with what, how many
\* fetches were issued for it, and what its callback found when it ran
Pending(noValue) ==
    [status |-> "pending", value |-> noValue, fetches |-> 1,
     sawTree |-> FALSE, sawFcs |-> {}]
NewRefinement == [ld |-> Pending(NoLayerData), count |-> Pending(NoCount),
                  symbologyLoads |-> 1]
Settled(outcome, built, fcs) ==
    [status |-> IF outcome.ok THEN "fulfilled" ELSE "rejected",
     value |-> outcome.value, fetches |-> 1,
     sawTree |-> outcome.ok /\ built,
     sawFcs |-> IF outcome.ok THEN DOMAIN fcs ELSE {}]

(***************************************************************************)
(* DynamicRecord                                                           *)
(***************************************************************************)
\* server hierarchies: id 1 groups 2 and 3, 3 groups 4; and id 2 groups 3 and 4
SubLayers1 == [i \in Ids |-> IF i = 1 THEN <<2, 3>> ELSE IF i = 3 THEN <<4>> ELSE <<>>]
SubLayers2 == [i \in Ids |-> IF i = 2 THEN <<3, 4>> ELSE <<>>]
MakeInfos(sub) ==
    [i \in Ids |-> [id |-> i, name |-> SrvNames[i + 1], subLayerIds |-> sub[i]]]
Hierarchies == {MakeInfos(SubLayers1), MakeInfos(SubLayers2)}

IsGroupInfo(info) == Len(info.subLayerIds) > 0
LeafIds(infos) == {i \in Ids : ~IsGroupInfo(infos[i])}

RECURSIVE Ascending(_)
Ascending(S) ==
    IF S = {} THEN <<>>
    ELSE LET m == CHOOSE x \in S : \A y \in S : x <= y
         IN <<toString(m)>> \o Ascending(S \ {m})

\* what the attribute bundle reports: promises are set up for every sub-layer
\* of the service, or for every leaf of it
BundleChoices(infos) == {Ascending(Ids), Ascending(LeafIds(infos))}

getChildProxy_NoCache(r, featureIdx) ==
    LET pfc == PfcSource(Len(r.pfcs) + 1)
        tProxy == convertToPlaceholder(LayerInterface(pfc), pfc)
    IN [rec |-> [r EXCEPT !.pfcs = Append(@, PlaceholderFC("")),
                          !.handles = Append(@, tProxy)],
        ret |-> Len(r.handles) + 1]

\* r holds the record's proxies, handles and pfcs
getChildProxy(r, featureIdx) ==
    LET strIdx == toString(featureIdx)
    IN IF r.proxies[strIdx] # 0
       THEN [rec |-> r, ret |-> r.proxies[strIdx]]
       ELSE LET pfc == PfcSource(Len(r.pfcs) + 1)
                tProxy == convertToPlaceholder(LayerInterface(pfc), pfc)
            IN [rec |-> [r EXCEPT !.pfcs = Append(@, PlaceholderFC("")),
                                  !.handles = Append(@, tProxy),
                                  !.proxies[strIdx] = Len(r.handles) + 1],
                ret |-> Len(r.handles) + 1]

RECURSIVE processLayerInfo(_, _, _), processSubLayers(_, _, _)

\* faulty variant: the leaf branch binds a new proxy under the key every time
processLeaf_Rebind(layerInfo, subC, treeArray, st) ==
    LET sId == toString(layerInfo.id)
        pfc == PfcSource(Len(st.pfcs) + 1)
        st1 == [st EXCEPT !.pfcs = Append(@, PlaceholderFC(subC.name))]
        st2 == [st1 EXCEPT
                   !.handles = Append(@, convertToPlaceholder(
                                             LayerInterface(NullSource), pfc)),
                   !.proxies[sId] = Len(st1.handles) + 1]
    IN [tree |-> Append(treeArray, [entryIndex |-> layerInfo.id]), st |-> st2]

\* the leaf branch of processLayerInfo
processLeaf(layerInfo, subC, treeArray, st) ==
    LET sId == toString(layerInfo.id)
        pfc == PfcSource(Len(st.pfcs) + 1)
        st1 == [st EXCEPT !.pfcs = Append(@, PlaceholderFC(subC.name))]
        st2 == IF st1.proxies[sId] # 0
               THEN [st1 EXCEPT !.handles[st1.proxies[sId]] = updateSource(@, pfc)]
               ELSE [st1 EXCEPT
                        !.handles = Append(@, convertToPlaceholder(
                                                  LayerInterface(NullSource), pfc)),
                        !.proxies[sId] = Len(st1.handles) + 1]
    IN [tree |-> Append(treeArray, [entryIndex |-> layerInfo.id]), st |-> st2]

\* faulty variant: a leaf always gets a new proxy
processLayerInfo_NewProxy(layerInfo, treeArray, st) ==
    LET sId == toString(layerInfo.id)
        f == fetchSubConfig(st.subConfigs, sId, layerInfo.name)
        st1 == [st EXCEPT !.subConfigs = f.subConfigs]
    IN IF Len(layerInfo.subLayerIds) > 0
       THEN LET kids == processSubLayers(layerInfo.subLayerIds, <<>>, st1)
            IN [tree |-> Append(treeArray, [entryIndex |-> layerInfo.id,
                                            name |-> f.ret.name,
                                            childs |-> kids.tree]),
                st |-> kids.st]
       ELSE processLeaf(layerInfo, f.ret, treeArray,
                        [st1 EXCEPT !.proxies[sId] = 0])

\* faulty variant: the children are pushed to the parent's array
processLayerInfo_Flat(layerInfo, treeArray, st) ==
    LET sId == toString(layerInfo.id)
        f == fetchSubConfig(st.subConfigs, sId, layerInfo.name)
        st1 == [st EXCEPT !.subConfigs = f.subConfigs]
    IN IF Len(layerInfo.subLayerIds) > 0
       THEN processSubLayers(layerInfo.subLayerIds,
                             Append(treeArray, [entryIndex |-> layerInfo.id,
                                                name |-> f.ret.name,
                                                childs |-> <<>>]),
                             st1)
       ELSE processLeaf(layerInfo, f.ret, treeArray, st1)

\* st holds subConfigs, proxies, handles and pfcs; returns the array with the
\* node of layerInfo pushed, and st as the walk leaves it
processLayerInfo(layerInfo, treeArray, st) ==
    LET sId == toString(layerInfo.id)
        f == fetchSubConfig(st.subConfigs, sId, layerInfo.name)
        st1 == [st EXCEPT !.subConfigs = f.subConfigs]
    IN IF Len(layerInfo.subLayerIds) > 0
       THEN LET kids == processSubLayers(layerInfo.subLayerIds, <<>>, st1)
            IN [tree |-> Append(treeArray, [entryIndex |-> layerInfo.id,
                                            name |-> f.ret.name,
                                            childs |-> kids.tree]),
                st |-> kids.st]
       ELSE processLeaf(layerInfo, f.ret, treeArray, st1)

\* layerInfo.subLayerIds.forEach(slid => processLayerInfo(layerInfos[slid], childs))
processSubLayers(slids, childs, st) ==
    IF slids = <<>> THEN [tree |-> childs, st |-> st]
    ELSE LET r == processLayerInfo(layerInfos[Head(slids)], childs, st)
         IN processSubLayers(Tail(slids), r.tree, r.st)

\* faulty variant: the stateOnly entries are walked as well
RECURSIVE processEntries_All(_, _, _)
processEntries_All(les, tree, st) ==
    IF les = <<>> THEN [tree |-> tree, st |-> st]
    ELSE LET r == processLayerInfo(layerInfos[Head(les).index], tree, st)
         IN processEntries_All(Tail(les), r.tree, r.st)

\* config.layerEntries.forEach(le => if (!le.stateOnly) processLayerInfo(...))
RECURSIVE processEntries(_, _, _)
processEntries(les, tree, st) ==
    IF les = <<>> THEN [tree |-> tree, st |-> st]
    ELSE LET le == Head(les)
             r == IF ~le.stateOnly
                  THEN processLayerInfo(layerInfos[le.index], tree, st)
                  ELSE [tree |-> tree, st |-> st]
         IN processEntries(Tail(les), r.tree, r.st)

\* faulty variants of the loop body: the Feature-Class State is not stored in
\* the table, the proxy is not converted, the layer data is applied inside
\* the loop
createFeatClass_NoAttach(idx, st) ==
    IF idx \in DOMAIN st.subConfigs /\ st.subConfigs[idx].defaulted
    THEN LET leafProxy == st.proxies[idx]
             hs == IF leafProxy # 0
                   THEN [st.handles EXCEPT ![leafProxy] =
                            convertToDynamicLeaf(@, DfcSource(idx))]
                   ELSE st.handles
         IN [st EXCEPT !.handles = hs]
    ELSE st

createFeatClass_NoConvert(idx, st) ==
    IF idx \in DOMAIN st.subConfigs /\ st.subConfigs[idx].defaulted
    THEN LET dFC == DynamicFC(idx, st.subConfigs[idx].config)
         IN [st EXCEPT !.featClasses = (idx :> dFC) @@ @,
                       !.refine = (idx :> NewRefinement) @@ @]
    ELSE st

createFeatClass_Sync(idx, st) ==
    IF idx \in DOMAIN st.subConfigs /\ st.subConfigs[idx].defaulted
    THEN LET ld == [ok |-> TRUE,
                    value |-> [layerType |-> "Raster Layer",
                               geometryType |-> "esriGeometryPoint"]]
             dFC == thenLayerData(DynamicFC(idx, st.subConfigs[idx].config), ld)
             leafProxy == st.proxies[idx]
             hs == IF leafProxy # 0
                   THEN [st.handles EXCEPT ![leafProxy] =
                            convertToDynamicLeaf(@, DfcSource(idx))]
                   ELSE st.handles
             fcs == (idx :> dFC) @@ st.featClasses
         IN [st EXCEPT !.featClasses = fcs,
                       !.handles = hs,
                       !.refine = (idx :> [NewRefinement EXCEPT
                                              !.ld = Settled(ld, TRUE, fcs)]) @@ @]
    ELSE st

\* faulty variant: any entry of the table gets a Feature-Class State
createFeatClass_AnyEntry(idx, st) ==
    IF idx \in DOMAIN st.subConfigs
    THEN LET dFC == DynamicFC(idx, st.subConfigs[idx].config)
             leafProxy == st.proxies[idx]
             hs == IF leafProxy # 0
                   THEN [st.handles EXCEPT ![leafProxy] =
                            convertToDynamicLeaf(@, DfcSource(idx))]
                   ELSE st.handles
         IN [st EXCEPT !.featClasses = (idx :> dFC) @@ @,
                       !.handles = hs,
                       !.refine = (idx :> NewRefinement) @@ @]
    ELSE st

\* the body of attributeBundle.indexes.forEach: st holds subConfigs, proxies,
\* handles, featClasses and the promises whose callbacks the loop registers
createFeatClass(idx, st) ==
    IF idx \in DOMAIN st.subConfigs /\ st.subConfigs[idx].defaulted
    THEN LET dFC == DynamicFC(idx, st.subConfigs[idx].config)
             leafProxy == st.proxies[idx]
             hs == IF leafProxy # 0
                   THEN [st.handles EXCEPT ![leafProxy] =
                            convertToDynamicLeaf(@, DfcSource(idx))]
                   ELSE st.handles
         IN [st EXCEPT !.featClasses = (idx :> dFC) @@ @,
                       !.handles = hs,
                       !.refine = (idx :> NewRefinement) @@ @]
    ELSE st

RECURSIVE createFeatClasses(_, _)
createFeatClasses(idxs, st) ==
    IF idxs = <<>> THEN st
    ELSE createFeatClasses(Tail(idxs), createFeatClass(Head(idxs), st))

\* the visible-layer list of a complete config: the filter reads .config of
\* what fetchSubConfig returns, and reading .state of undefined throws
initVisibleLayers(sc, fcs) ==
    LET keys == DOMAIN fcs
        undef == {fcId \in keys : "config" \notin DOMAIN fetchSubConfig(sc, fcId, "").ret}
    IN IF undef # {}
       THEN [threw |-> TRUE, initVis |-> <<>>]
       ELSE LET vis == {fcId \in keys :
                           fetchSubConfig(sc, fcId, "").ret.config.state.visibility}
            IN [threw |-> FALSE,
                initVis |-> IF vis = {} THEN <<-1>>
                            ELSE [k \in 1..Cardinality(vis) |->
                                     parseInt(Ascending({parseInt(x) : x \in vis})[k])]]

Call(op, idx, ret, threw) == [op |-> op, idx |-> idx, ret |-> ret, threw |-> threw]
NotIssued == [h |-> 0, pre |-> FALSE]

InitRecord ==
    /\ layerInfos \in Hierarchies
    /\ attribIndexes \in BundleChoices(layerInfos)
    /\ \E ci \in ConfigInputs :
          /\ config = ci.layerEntries
          /\ configIsComplete = ci.complete
    /\ proxies = [id \in StrIds |-> 0]
    /\ handles = <<>>
    /\ pfcs = <<>>
    /\ featClasses = EmptyMap
    /\ subConfigs = EmptyMap
    /\ childTree = <<>>
    /\ treeBuilt = FALSE
    /\ visCalls = <<>>
    /\ lastCall = Call("new", "", 0, FALSE)
    /\ issued = [id \in StrIds |-> NotIssued]

GetChildProxy(featureIdx) ==
    \E r \in {getChildProxy([proxies |-> proxies, handles |-> handles, pfcs |-> pfcs],
                            featureIdx)} :
        LET strIdx == toString(featureIdx)
            creates == Len(r.rec.handles) > Len(handles)
        IN /\ creates => Cardinality({id \in StrIds : issued[id].h # 0}) < MaxRequests
           /\ proxies' = r.rec.proxies
           /\ handles' = r.rec.handles
           /\ pfcs' = r.rec.pfcs
           /\ issued' = IF creates
                        THEN [issued EXCEPT ![strIdx] = [h |-> r.ret, pre |-> ~treeBuilt]]
                        ELSE issued
           /\ lastCall' = Call("getChildProxy", strIdx, r.ret, FALSE)
           /\ UNCHANGED <<layerInfos, config, configIsComplete, attribIndexes,
                          featClasses, subConfigs, childTree, treeBuilt, visCalls>>
           /\ UNCHANGED <<liVars, fetchVars, refineVars, auxVars>>

\* r holds the record's fields; returns them as onLoad leaves them, with the
\* list given to setVisibleLayers (if it was called) and whether onLoad threw
\* faulty variant: with an incomplete config all the layers are hidden
onLoad_HideIncomplete(r) ==
    LET walk == processEntries(r.config, <<>>,
                    [subConfigs |-> collateSubConfigs(r.config, r.configIsComplete),
                     proxies |-> r.proxies, handles |-> r.handles, pfcs |-> r.pfcs])
        fcl == createFeatClasses(r.attribIndexes,
                    [subConfigs |-> walk.st.subConfigs, proxies |-> walk.st.proxies,
                     handles |-> walk.st.handles, featClasses |-> r.featClasses,
                     refine |-> r.refine])
        vis == IF r.configIsComplete
               THEN initVisibleLayers(fcl.subConfigs, fcl.featClasses)
               ELSE [threw |-> FALSE, initVis |-> <<-1>>]
    IN [subConfigs |-> fcl.subConfigs,
        proxies |-> walk.st.proxies,
        pfcs |-> walk.st.pfcs,
        handles |-> fcl.handles,
        featClasses |-> fcl.featClasses,
        refine |-> fcl.refine,
        childTree |-> walk.tree,
        setVisibleLayers |-> IF ~vis.threw THEN <<vis.initVis>> ELSE <<>>,
        threw |-> vis.threw]

onLoad(r) ==
    LET walk == processEntries(r.config, <<>>,
                    [subConfigs |-> collateSubConfigs(r.config, r.configIsComplete),
                     proxies |-> r.proxies, handles |-> r.handles, pfcs |-> r.pfcs])
        fcl == createFeatClasses(r.attribIndexes,
                    [subConfigs |-> walk.st.subConfigs, proxies |-> walk.st.proxies,
                     handles |-> walk.st.handles, featClasses |-> r.featClasses,
                     refine |-> r.refine])
        vis == IF r.configIsComplete
               THEN initVisibleLayers(fcl.subConfigs, fcl.featClasses)
               ELSE [threw |-> FALSE, initVis |-> <<>>]
    IN [subConfigs |-> fcl.subConfigs,
        proxies |-> walk.st.proxies,
        pfcs |-> walk.st.pfcs,
        handles |-> fcl.handles,
        featClasses |-> fcl.featClasses,
        refine |-> fcl.refine,
        childTree |-> walk.tree,
        setVisibleLayers |-> IF r.configIsComplete /\ ~vis.threw
                             THEN <<vis.initVis>> ELSE <<>>,
        threw |-> vis.threw]

\* the layer's load event fires once
OnLoad ==
    /\ ~treeBuilt
    /\ \E r \in {onLoad([config |-> config, configIsComplete |-> configIsComplete,
                         attribIndexes |-> attribIndexes, proxies |-> proxies,
                         handles |-> handles, pfcs |-> pfcs,
                         featClasses |-> featClasses, refine |-> refine])} :
          /\ subConfigs' = r.subConfigs
          /\ proxies' = r.proxies
          /\ pfcs' = r.pfcs
          /\ handles' = r.handles
          /\ featClasses' = r.featClasses
          /\ refine' = r.refine
          /\ childTree' = r.childTree
          /\ treeBuilt' = TRUE
          /\ visCalls' = visCalls \o r.setVisibleLayers
          /\ lastCall' = Call("onLoad", "", 0, r.threw)
    /\ UNCHANGED <<layerInfos, config, configIsComplete, attribIndexes, issued>>
    /\ UNCHANGED <<liVars, fetchVars, lastRefine, treeRet, auxVars>>

IdleLI == li = <<>> /\ liKind = "none" /\ rootProxy = <<>>
NoFetch == [n |-> 0, id |-> "", serverName |-> "", hadEntry |-> FALSE,
            wasDefaulted |-> FALSE, before |-> newSubConfig("0", ""),
            ret |-> newSubConfig("0", "")]
IdleFetch == fetchHist = EmptyMap /\ lastFetch = NoFetch
NoRefine == [idx |-> "", kind |-> "none", before |-> EmptyMap]
IdleRefine == refine = EmptyMap /\ lastRefine = NoRefine /\ treeRet = <<>>
NoQuery == [op |-> "none", idx |-> "", threw |-> FALSE, consulted |-> {},
            tick |-> FALSE]
IdleMore == simpleRec = <<>> /\ featRec = <<>> /\ copies = <<>>
IdleAux ==
    query = NoQuery /\ basicFC = <<>> /\ wmsFC = <<>> /\ ident = <<>> /\ IdleMore

Init == InitRecord /\ IdleLI /\ IdleFetch /\ IdleRefine /\ IdleAux
Next == (\E i \in ReqIds : GetChildProxy(i)) \/ OnLoad
Spec == Init /\ [][Next]_vars


(***************************************************************************)
(* Sub-config defaulting on its own: fetchSubConfig called call by call    *)
(***************************************************************************)
FetchIds == {toString(1), toString(2)}
FetchNames == {"", "srvA", "srvB"}

InitFetch ==
    /\ \E ci \in ConfigInputs :
          /\ config = ci.layerEntries
          /\ configIsComplete = ci.complete
    /\ subConfigs = collateSubConfigs(config, configIsComplete)
    /\ fetchHist = [id \in FetchIds |-> <<>>]
    /\ lastFetch = NoFetch
    /\ layerInfos = MakeInfos(SubLayers1)
    /\ attribIndexes = <<>>
    /\ proxies = [id \in StrIds |-> 0]
    /\ handles = <<>>
    /\ pfcs = <<>>
    /\ featClasses = EmptyMap
    /\ childTree = <<>>
    /\ treeBuilt = FALSE
    /\ visCalls = <<>>
    /\ lastCall = Call("new", "", 0, FALSE)
    /\ issued = [id \in StrIds |-> NotIssued]
    /\ IdleLI
    /\ IdleRefine
    /\ IdleAux

FetchSubConfig(id, serverName) ==
    /\ Len(fetchHist[id]) < MaxFetch
    /\ LET r == fetchSubConfig(subConfigs, id, serverName)
           had == id \in DOMAIN subConfigs
       IN /\ subConfigs' = r.subConfigs
          /\ fetchHist' = [fetchHist EXCEPT ![id] = Append(@, r.ret)]
          /\ lastFetch' = [n |-> Len(fetchHist[id]) + 1, id |-> id,
                           serverName |-> serverName, hadEntry |-> had,
                           wasDefaulted |-> had /\ subConfigs[id].defaulted,
                           before |-> IF had THEN subConfigs[id].config
                                      ELSE NoFetch.before,
                           ret |-> r.ret]
    /\ UNCHANGED <<config, configIsComplete, lastCall>>
    /\ UNCHANGED <<recordVars, liVars, refineVars, auxVars>>

NextFetch == \E id \in FetchIds, serverName \in FetchNames : FetchSubConfig(id, serverName)
SpecFetch == InitFetch /\ [][NextFetch]_vars

(***************************************************************************)
(* A LayerInterface on its own, and SimpleRecord.getProxy                  *)
(***************************************************************************)
PfcSources == {PfcSource(1), PfcSource(2)}
DfcSources == {DfcSource(toString(1)), DfcSource(toString(2))}
Sources == {NullSource, RecordSource} \cup PfcSources \cup DfcSources

InitLI ==
    /\ IdleLI
    /\ config = <<>>
    /\ configIsComplete = FALSE
    /\ subConfigs = EmptyMap
    /\ IdleFetch
    /\ layerInfos = MakeInfos(SubLayers1)
    /\ attribIndexes = <<>>
    /\ proxies = [id \in StrIds |-> 0]
    /\ handles = <<>>
    /\ pfcs = <<>>
    /\ featClasses = EmptyMap
    /\ childTree = <<>>
    /\ treeBuilt = FALSE
    /\ visCalls = <<>>
    /\ lastCall = Call("new", "", 0, FALSE)
    /\ issued = [id \in StrIds |-> NotIssued]
    /\ IdleRefine
    /\ IdleAux

LIFrame ==
    /\ UNCHANGED <<config, configIsComplete, subConfigs, lastCall, rootProxy>>
    /\ UNCHANGED <<recordVars, fetchVars, refineVars, auxVars>>

NewLayerInterface(source) ==
    /\ li' = <<LayerInterface(source)>>
    /\ liKind' = "none"
    /\ LIFrame

UpdateSource(newSource) ==
    /\ li # <<>>
    /\ li' = <<updateSource(li[1], newSource)>>
    /\ UNCHANGED liKind
    /\ LIFrame

ConvertToSingleLayer ==
    /\ li # <<>>
    /\ li' = <<convertToSingleLayer(li[1], RecordSource)>>
    /\ liKind' = "singleLayer"
    /\ LIFrame

ConvertToFeatureLayer ==
    /\ li # <<>>
    /\ li' = <<convertToFeatureLayer(li[1], RecordSource)>>
    /\ liKind' = "featureLayer"
    /\ LIFrame

ConvertToDynamicLeaf(dynamicFC) ==
    /\ li # <<>>
    /\ li' = <<convertToDynamicLeaf(li[1], dynamicFC)>>
    /\ liKind' = "dynamicLeaf"
    /\ LIFrame

ConvertToPlaceholder(placeholderFC) ==
    /\ li # <<>>
    /\ li' = <<convertToPlaceholder(li[1], placeholderFC)>>
    /\ liKind' = "placeholder"
    /\ LIFrame

\* SimpleRecord.getProxy: the first call stores the new handle and then calls
\* convertToSimpleLayer, which LayerInterface does not define
SimpleGetProxy ==
    /\ IF rootProxy = <<>>
       THEN /\ rootProxy' = <<LayerInterface(RecordSource)>>
            /\ "convertToSimpleLayer" \notin LayerInterfaceMethods
            /\ lastCall' = Call("getProxy", "", 0, TRUE)
       ELSE /\ UNCHANGED rootProxy
            /\ lastCall' = Call("getProxy", "", 1, FALSE)
    /\ UNCHANGED <<config, configIsComplete, subConfigs, li, liKind>>
    /\ UNCHANGED <<recordVars, fetchVars, refineVars, auxVars>>

NextLI ==
    \/ \E s \in Sources : NewLayerInterface(s)
    \/ \E s \in Sources : UpdateSource(s)
    \/ ConvertToSingleLayer
    \/ ConvertToFeatureLayer
    \/ \E s \in DfcSources : ConvertToDynamicLeaf(s)
    \/ \E s \in PfcSources : ConvertToPlaceholder(s)
    \/ SimpleGetProxy
SpecLI == InitLI /\ [][NextLI]_vars

(***************************************************************************)
(* The record around its load: getChildTree and the promise callbacks of   *)
(* the Feature-Class loop, which run one by one after onLoad has returned  *)
(***************************************************************************)
\* this._childTree is undefined until onLoad assigns it; an array, empty or
\* not, is truthy
childTreeField == IF treeBuilt THEN <<childTree>> ELSE <<>>

\* faulty variant: an empty tree is taken for a missing one
getChildTree_EmptyThrows(tree) ==
    IF tree # <<>> /\ tree[1] # <<>>
    THEN [threw |-> FALSE, ret |-> tree]
    ELSE [threw |-> TRUE, ret |-> <<>>]

getChildTree(tree) ==
    IF tree # <<>>
    THEN [threw |-> FALSE, ret |-> tree]
    ELSE [threw |-> TRUE, ret |-> <<>>]

GetChildTree ==
    /\ \E r \in {getChildTree(childTreeField)} :
          /\ treeRet' = r.ret
          /\ lastCall' = Call("getChildTree", "", 0, r.threw)
    /\ UNCHANGED <<recordVars, config, configIsComplete, subConfigs, refine,
                   lastRefine>>
    /\ UNCHANGED <<liVars, fetchVars, auxVars>>

RefineFrame ==
    /\ UNCHANGED <<layerInfos, attribIndexes, proxies, handles, pfcs, childTree,
                   treeBuilt, visCalls, issued, config, configIsComplete,
                   subConfigs, lastCall, treeRet>>
    /\ UNCHANGED <<liVars, fetchVars, auxVars>>

\* faulty variant: every callback writes to the dFC the loop created last
LayerDataSettles_Shared(idx) ==
    /\ idx \in DOMAIN refine
    /\ refine[idx].ld.status = "pending"
    /\ \E outcome \in LayerDataOutcomes :
          LET last == CHOOSE x \in DOMAIN featClasses :
                          \A y \in DOMAIN featClasses : parseInt(y) <= parseInt(x)
          IN /\ featClasses' = [featClasses EXCEPT ![last] = thenLayerData(@, outcome)]
             /\ refine' = [refine EXCEPT
                              ![idx].ld = Settled(outcome, treeBuilt, featClasses)]
    /\ lastRefine' = [idx |-> idx, kind |-> "layerData", before |-> featClasses]
    /\ RefineFrame

\* the layer-data promise of idx settles; the callback writes to the dFC the
\* loop created for idx
LayerDataSettles(idx) ==
    /\ idx \in DOMAIN refine
    /\ refine[idx].ld.status = "pending"
    /\ \E outcome \in LayerDataOutcomes :
          /\ featClasses' = [featClasses EXCEPT ![idx] = thenLayerData(@, outcome)]
          /\ refine' = [refine EXCEPT
                           ![idx].ld = Settled(outcome, treeBuilt, featClasses)]
    /\ lastRefine' = [idx |-> idx, kind |-> "layerData", before |-> featClasses]
    /\ RefineFrame

FeatureCountSettles(idx) ==
    /\ idx \in DOMAIN refine
    /\ refine[idx].count.status = "pending"
    /\ \E outcome \in CountOutcomes :
          /\ featClasses' = [featClasses EXCEPT ![idx] = thenFeatureCount(@, outcome)]
          /\ refine' = [refine EXCEPT
                           ![idx].count = Settled(outcome, treeBuilt, featClasses)]
    /\ lastRefine' = [idx |-> idx, kind |-> "featureCount", before |-> featClasses]
    /\ RefineFrame

\* a service of two groups and three leaves, the bundle reporting the leaves
InitRefine ==
    /\ Init
    /\ layerInfos = MakeInfos(SubLayers1)
    /\ attribIndexes = Ascending(LeafIds(layerInfos))
    /\ \A k \in DOMAIN config : config[k].index \in {1, 3}

NextRefine ==
    \/ OnLoad
    \/ GetChildTree
    \/ \E idx \in StrIds : LayerDataSettles(idx)
    \/ \E idx \in StrIds : FeatureCountSettles(idx)
SpecRefine == InitRefine /\ [][NextRefine]_vars


(***************************************************************************)
(* The per-index queries of DynamicRecord                                  *)
(***************************************************************************)
Delegators == {"isOffScale", "isQueryable", "getFormattedAttributes", "getAttribs",
               "getLayerData", "getFeatureName", "getSymbology"}
QueryOps == Delegators \cup {"getFeatureCount"}
QueryIds == {"2", "3", "4"}
LayerUrl == "http://srv/MapServer"

\* what a Feature-Class State answers: the field the record reads, or the
\* result of the method called on that very object
FcAnswer(fc, op) ==
    IF op = "isQueryable" THEN <<fc.queryable>>
    ELSE IF op = "getFeatureCount" THEN <<fc.featureCount>>
    ELSE <<[call |-> op, on |-> fc.idx]>>

\* faulty variant: the delegating queries ask the Feature-Class State with
\* the lowest index
recordQuery_First(fcs, op, childIdx, serverCount) ==
    IF op = "getFeatureCount"
    THEN [threw |-> FALSE, consulted |-> {},
          request |-> <<[url |-> LayerUrl, idx |-> childIdx]>>,
          value |-> IF serverCount.ok THEN <<serverCount.value>> ELSE <<>>]
    ELSE IF fcs = EmptyMap
         THEN [threw |-> TRUE, consulted |-> {}, request |-> <<>>, value |-> <<>>]
         ELSE LET first == CHOOSE x \in DOMAIN fcs :
                               \A y \in DOMAIN fcs : parseInt(x) <= parseInt(y)
              IN [threw |-> FALSE, consulted |-> {first}, request |-> <<>>,
                  value |-> FcAnswer(fcs[first], op)]

\* faulty variant: a query for an index with no Feature-Class State answers
\* with a default
recordQuery_Default(fcs, op, childIdx, serverCount) ==
    IF op = "getFeatureCount"
    THEN [threw |-> FALSE, consulted |-> {},
          request |-> <<[url |-> LayerUrl, idx |-> childIdx]>>,
          value |-> IF serverCount.ok THEN <<serverCount.value>> ELSE <<>>]
    ELSE IF childIdx \notin DOMAIN fcs
         THEN [threw |-> FALSE, consulted |-> {}, request |-> <<>>,
               value |-> <<"undefined">>]
         ELSE [threw |-> FALSE, consulted |-> {childIdx}, request |-> <<>>,
               value |-> FcAnswer(fcs[childIdx], op)]

\* getFeatureCount asks the parent class for the count at url + '/' + index
\* and reads no Feature-Class State (value is what the promise resolves with,
\* <<>> when it rejects); the other queries read
\* this._featClasses[childIdx], which throws when the table has no such key
recordQuery(fcs, op, childIdx, serverCount) ==
    IF op = "getFeatureCount"
    THEN [threw |-> FALSE, consulted |-> {},
          request |-> <<[url |-> LayerUrl, idx |-> childIdx]>>,
          value |-> IF serverCount.ok THEN <<serverCount.value>> ELSE <<>>]
    ELSE IF childIdx \notin DOMAIN fcs
         THEN [threw |-> TRUE, consulted |-> {}, request |-> <<>>, value |-> <<>>]
         ELSE [threw |-> FALSE, consulted |-> {childIdx}, request |-> <<>>,
               value |-> FcAnswer(fcs[childIdx], op)]

RecordQuery(op, childIdx) ==
    /\ \E outcome \in IF op = "getFeatureCount" THEN CountOutcomes
                       ELSE {[ok |-> FALSE, value |-> NoCount]} :
          query' = [op |-> op, idx |-> childIdx, tick |-> ~query.tick,
                    fcAt |-> IF childIdx \in DOMAIN featClasses
                             THEN <<featClasses[childIdx]>> ELSE <<>>]
                   @@ recordQuery(featClasses, op, childIdx, outcome)
    /\ UNCHANGED <<recordVars, config, configIsComplete, subConfigs, lastCall,
                   liVars, fetchVars, refineVars, basicFC, wmsFC, ident, moreVars>>

\* handle.query: the stub throws, dynamicLeafGetQuery reads _source.queryable
getQuery(h, fcs) ==
    IF h.ops["query"] = "dynamicLeaf" /\ h.source.kind = "dfc"
    THEN [threw |-> FALSE, value |-> <<fcs[toString(h.source.id)].queryable>>]
    ELSE [threw |-> TRUE, value |-> <<>>]

\* faulty variant: the flag is written to every Feature-Class State
setQuery_All(h, fcs, value) ==
    IF h.ops["setQuery"] = "dynamicLeaf" /\ h.source.kind = "dfc"
    THEN [threw |-> FALSE,
          fcs |-> [x \in DOMAIN fcs |-> [fcs[x] EXCEPT !.queryable = value]]]
    ELSE [threw |-> TRUE, fcs |-> fcs]

\* handle.setQuery(value): the stub throws, dynamicLeafSetQuery assigns
\* _source.queryable
setQuery(h, fcs, value) ==
    IF h.ops["setQuery"] = "dynamicLeaf" /\ h.source.kind = "dfc"
    THEN [threw |-> FALSE,
          fcs |-> [fcs EXCEPT ![toString(h.source.id)].queryable = value]]
    ELSE [threw |-> TRUE, fcs |-> fcs]

\* setQuery called on the handle the proxy table holds for childIdx
HandleSetQuery(childIdx, value) ==
    /\ proxies[childIdx] # 0
    /\ \E r \in {setQuery(handles[proxies[childIdx]], featClasses, value)} :
          /\ featClasses' = r.fcs
          /\ query' = [op |-> "setQuery", idx |-> childIdx, threw |-> r.threw,
                       tick |-> ~query.tick,
                       consulted |-> {}, value |-> <<value>>, before |-> featClasses]
    /\ UNCHANGED <<layerInfos, attribIndexes, proxies, handles, pfcs, childTree,
                   treeBuilt, visCalls, issued, config, configIsComplete, subConfigs,
                   lastCall, liVars, fetchVars, refineVars, basicFC, wmsFC, ident, moreVars>>

\* a service of two groups and three leaves, one configured group
InitQuery ==
    /\ InitRefine
    /\ Len(config) = 1
    /\ config[1].index = 1
    /\ ~config[1].stateOnly

NextQuery ==
    \/ OnLoad
    \/ \E idx \in StrIds : FeatureCountSettles(idx)
    \/ \E op \in QueryOps, childIdx \in QueryIds : RecordQuery(op, childIdx)
    \/ \E childIdx \in QueryIds, value \in BOOLEAN : HandleSetQuery(childIdx, value)

SpecQuery == InitQuery /\ [][NextQuery]_vars

(***************************************************************************)
(* DynamicRecord.identify and the callbacks it registers                   *)
(***************************************************************************)
IdentifyIds == {2, 4}
LayerIdLists == UNION {[1..n -> IdentifyIds] : n \in 1..3}
Hits == {[layerId |-> l, value |-> v] : l \in IdentifyIds, v \in {"f1", "f2"}}
ClickResults(layerIds) ==
    {cr \in UNION {[1..n -> Hits] : n \in 0..2} :
        \A k \in DOMAIN cr : \E j \in DOMAIN layerIds : layerIds[j] = cr[k].layerId}

\* shared.IdentifyResult: the requester, no data yet, loading
IdentifyResult(featureIdx) ==
    [requester |-> [featureIdx |-> featureIdx], data |-> <<>>, isLoading |-> TRUE]

\* opts.layerIds.forEach(leafIndex => identifyResults[leafIndex] = ...)
RECURSIVE makeIdentifyResults(_, _)
makeIdentifyResults(layerIds, identifyResults) ==
    IF layerIds = <<>> THEN identifyResults
    ELSE makeIdentifyResults(Tail(layerIds),
                             (Head(layerIds) :> IdentifyResult(Head(layerIds)))
                             @@ identifyResults)

\* identifyResults.filter(x => x): the filled slots in index order
RECURSIVE collapse(_)
collapse(slots) ==
    IF slots = {} THEN <<>>
    ELSE LET least == CHOOSE x \in slots : \A y \in slots : x <= y
         IN <<least>> \o collapse(slots \ {least})

\* identify up to its return: results is the sparse array, returned the array
\* handed back (references into results), promises the futures handed back
identify(layerIds) ==
    LET identifyResults == makeIdentifyResults(layerIds, EmptyMap)
    IN [layerIds |-> layerIds,
        results |-> identifyResults,
        returned |-> collapse(DOMAIN identifyResults),
        promises |-> 1,
        promise |-> "pending",
        clickResults |-> <<>>,
        pending |-> {},
        arrived |-> {},
        observed |-> FALSE]

\* the callback of serverLayerIdentify(...).then; getLayerData throws for a
\* layerId with no Feature-Class State, which ends the callback
thenClickResults(id, fcs, clickResults) ==
    LET bad == {k \in DOMAIN clickResults :
                   toString(clickResults[k].layerId) \notin DOMAIN fcs}
        hitIndexes == {clickResults[k].layerId : k \in DOMAIN clickResults}
    IN IF bad # {}
       THEN [id EXCEPT !.promise = "rejected",
                       !.clickResults = clickResults,
                       !.pending = {k \in DOMAIN clickResults : \A b \in bad : k < b}]
       ELSE [id EXCEPT !.promise = "fulfilled",
                       !.clickResults = clickResults,
                       !.pending = DOMAIN clickResults,
                       !.results = [l \in DOMAIN @ |->
                                       IF @[l].requester.featureIdx \notin hitIndexes
                                       THEN [@[l] EXCEPT !.isLoading = FALSE]
                                       ELSE @[l]]]

\* faulty variant: the hit goes to the first bucket
thenHitLayerData_First(id, k, lData) ==
    LET ele == id.clickResults[k]
        first == id.returned[1]
        entry == [name |-> ele.value, hit |-> k]
    IN [id EXCEPT !.results[first] =
                     [@ EXCEPT !.data = IF lData.supportsFeatures
                                        THEN Append(@, entry) ELSE @,
                               !.isLoading = FALSE],
                  !.pending = @ \ {k},
                  !.arrived = @ \cup {k}]

\* the callback of this.getLayerData(ele.layerId).then for hit k; hit is the
\* position of ele in clickResults
thenHitLayerData(id, k, lData) ==
    LET ele == id.clickResults[k]
        entry == [name |-> ele.value, hit |-> k]
    IN [id EXCEPT !.results[ele.layerId] =
                     [@ EXCEPT !.data = IF lData.supportsFeatures
                                        THEN Append(@, entry) ELSE @,
                               !.isLoading = FALSE],
                  !.pending = @ \ {k},
                  !.arrived = @ \cup {k}]

IdentFrame == UNCHANGED <<recordVars, config, configIsComplete, subConfigs, lastCall,
                          liVars, fetchVars, refineVars, query, basicFC, wmsFC, moreVars>>

\* identify is called on the loaded layer for leaves of its tree
Identify(layerIds) ==
    /\ treeBuilt
    /\ ident = <<>>
    /\ \A k \in DOMAIN layerIds : toString(layerIds[k]) \in DOMAIN featClasses
    /\ \E sf \in [IdentifyIds -> BOOLEAN], ready \in [IdentifyIds -> BOOLEAN] :
          ident' = identify(layerIds)
                   @@ [lData |-> [l \in IdentifyIds |-> [supportsFeatures |-> sf[l]]],
                       ready |-> ready]
    /\ IdentFrame

ServerIdentifyResolves ==
    /\ ident # <<>>
    /\ ident.promise = "pending"
    /\ \E clickResults \in ClickResults(ident.layerIds) :
          ident' = thenClickResults(ident, featClasses, clickResults)
    /\ IdentFrame

\* a rejected server identify runs no callback
ServerIdentifyRejects ==
    /\ ident # <<>>
    /\ ident.promise = "pending"
    /\ ident' = [ident EXCEPT !.promise = "rejected"]
    /\ IdentFrame

HitLayerDataResolves(k) ==
    /\ ident # <<>>
    /\ k \in ident.pending
    /\ ident' = thenHitLayerData(ident, k, ident.lData[ident.clickResults[k].layerId])
    /\ IdentFrame

\* the caller's callback on identifyPromise: it runs once the promise is
\* fulfilled, after the callbacks already queued on layer data that had
\* settled (ready) when the click results arrived
IdentifyObserved ==
    /\ ident # <<>>
    /\ ident.promise = "fulfilled"
    /\ ~ident.observed
    /\ \A k \in ident.pending : ~ident.ready[ident.clickResults[k].layerId]
    /\ ident' = [ident EXCEPT !.observed = TRUE]
    /\ IdentFrame

InitIdent == InitQuery /\ ~configIsComplete

NextIdent ==
    \/ OnLoad
    \/ \E layerIds \in LayerIdLists : Identify(layerIds)
    \/ ServerIdentifyResolves
    \/ ServerIdentifyRejects
    \/ \E k \in 1..2 : HitLayerDataResolves(k)
    \/ IdentifyObserved

SpecIdent == InitIdent /\ [][NextIdent]_vars

(***************************************************************************)
(* A BasicFC on its own: isOffScale and loadSymbology                      *)
(***************************************************************************)
MaxLoads == 2

Scales == {0, 5000, 10000}
MapScales == {4000, 5000, 6000, 10000, 20000}
Urls == {"", "http://srv/MapServer"}
Legends == {<<[label |-> "lake", imageData |-> "img1"]>>,
            <<[label |-> "road", imageData |-> "img2"],
              [label |-> "rail", imageData |-> "img3"]>>}

\* shared.makeSymbologyArray: one symbology item per legend item
makeSymbologyArray(legend) ==
    [k \in DOMAIN legend |->
        [name |-> legend[k].label, svgcode |-> legend[k].imageData]]

\* the symbology a Feature-Class State has before any load
NoSymbology == <<>>

\* getScaleSet: the scale bounds of the parent's layer
getScaleSet(fc) == [minScale |-> fc.layer.minScale, maxScale |-> fc.layer.maxScale]

\* faulty variant: a map scale equal to a bound is off-scale
isOffScale_Inclusive(fc, mapScale) ==
    LET scaleSet == getScaleSet(fc)
    IN IF mapScale <= scaleSet.maxScale /\ scaleSet.maxScale # 0
       THEN [offScale |-> TRUE, zoomIn |-> FALSE]
       ELSE IF mapScale >= scaleSet.minScale /\ scaleSet.minScale # 0
            THEN [offScale |-> TRUE, zoomIn |-> TRUE]
            ELSE [offScale |-> FALSE, zoomIn |-> FALSE]

\* faulty variant: the zoom direction is swapped
isOffScale_Swapped(fc, mapScale) ==
    LET scaleSet == getScaleSet(fc)
    IN IF mapScale < scaleSet.maxScale /\ scaleSet.maxScale # 0
       THEN [offScale |-> TRUE, zoomIn |-> TRUE]
       ELSE IF mapScale > scaleSet.minScale /\ scaleSet.minScale # 0
            THEN [offScale |-> TRUE, zoomIn |-> FALSE]
            ELSE [offScale |-> FALSE, zoomIn |-> FALSE]

isOffScale(fc, mapScale) ==
    LET scaleSet == getScaleSet(fc)
    IN IF mapScale < scaleSet.maxScale /\ scaleSet.maxScale # 0
       THEN [offScale |-> TRUE, zoomIn |-> FALSE]
       ELSE IF mapScale > scaleSet.minScale /\ scaleSet.minScale # 0
            THEN [offScale |-> TRUE, zoomIn |-> TRUE]
            ELSE [offScale |-> FALSE, zoomIn |-> FALSE]

\* faulty variant: without a url the legend is requested all the same
loadSymbology_NoThrow(fc) ==
    [threw |-> FALSE,
     fc |-> [fc EXCEPT !.fetches = Append(@, [url |-> fc.layer.url, idx |-> fc.idx,
                                              status |-> "pending"])]]

\* BasicFC.loadSymbology up to its return: the throw, or the legend request
loadSymbology(fc) ==
    IF fc.layer.url # ""
    THEN [threw |-> FALSE,
          fc |-> [fc EXCEPT !.fetches = Append(@, [url |-> fc.layer.url, idx |-> fc.idx,
                                                   status |-> "pending"])]]
    ELSE [threw |-> TRUE, fc |-> fc]

\* the callback of mapServerToLocalLegend(...).then
thenLegend(fc, k, legend) ==
    [fc EXCEPT !.symbology = makeSymbologyArray(legend),
               !.fetches[k] = [@ EXCEPT !.status = "fulfilled"] @@ [legend |-> legend]]

NoFcCall == [op |-> "new", n |-> 0, mapScale |-> 0,
             result |-> [offScale |-> FALSE, zoomIn |-> FALSE], threw |-> FALSE]

InitFC ==
    /\ InitRecord /\ IdleLI /\ IdleFetch /\ IdleRefine
    /\ layerInfos = MakeInfos(SubLayers1)
    /\ attribIndexes = Ascending(LeafIds(layerInfos))
    /\ config = <<>>
    /\ query = NoQuery /\ wmsFC = <<>> /\ ident = <<>> /\ IdleMore
    /\ \E idx \in {"0", "2"}, url \in Urls, mn \in Scales, mx \in Scales :
          basicFC = [idx |-> idx,
                     layer |-> [url |-> url, minScale |-> mn, maxScale |-> mx],
                     symbology |-> NoSymbology,
                     fetches |-> <<>>,
                     loads |-> 0,
                     last |-> NoFcCall]

FCFrame == UNCHANGED <<recordVars, config, configIsComplete, subConfigs, lastCall,
                       liVars, fetchVars, refineVars, query, wmsFC, ident, moreVars>>

IsOffScale(mapScale) ==
    /\ basicFC' = [basicFC EXCEPT !.last = [op |-> "isOffScale", n |-> 0,
                                            mapScale |-> mapScale,
                                            result |-> isOffScale(basicFC, mapScale),
                                            threw |-> FALSE]]
    /\ FCFrame

LoadSymbology ==
    /\ basicFC.loads < MaxLoads
    /\ \E r \in {loadSymbology(basicFC)} :
          basicFC' = [r.fc EXCEPT !.loads = @ + 1,
                                  !.last = [NoFcCall EXCEPT !.op = "loadSymbology",
                                                            !.n = basicFC.loads + 1,
                                                            !.threw = r.threw]]
    /\ FCFrame

LegendResolves(k, legend) ==
    /\ k \in DOMAIN basicFC.fetches
    /\ basicFC.fetches[k].status = "pending"
    /\ basicFC' = thenLegend(basicFC, k, legend)
    /\ FCFrame

\* a rejected legend request runs no callback
LegendRejects(k) ==
    /\ k \in DOMAIN basicFC.fetches
    /\ basicFC.fetches[k].status = "pending"
    /\ basicFC' = [basicFC EXCEPT !.fetches[k].status = "rejected"]
    /\ FCFrame

NextFC ==
    \/ \E mapScale \in MapScales : IsOffScale(mapScale)
    \/ LoadSymbology
    \/ \E k \in 1..MaxLoads, legend \in Legends : LegendResolves(k, legend)
    \/ \E k \in 1..MaxLoads : LegendRejects(k)

SpecFC == InitFC /\ [][NextFC]_vars

(***************************************************************************)
(* A WmsFC on its own: getWMSLayerTitle and loadSymbology                  *)
(***************************************************************************)
\* layerInfos of a wms layer: the wms id is in .name; subLayers <<>> stands
\* for a node with no subLayers (an absent and an empty list search alike)
WmsNode(name, title, subLayers) ==
    [name |-> name, title |-> title, subLayers |-> subLayers]
WmsLeaves == {WmsNode("a", "A1", <<>>), WmsNode("a", "A2", <<>>),
              WmsNode("a", "", <<>>), WmsNode("b", "B1", <<>>)}
WmsSubLeaves == {WmsNode("a", "A1", <<>>), WmsNode("a", "", <<>>),
                 WmsNode("b", "B1", <<>>)}
WmsGroups == {WmsNode("g", "G", subs) :
                 subs \in UNION {[1..n -> WmsSubLeaves] : n \in 1..2}}
WmsCatalogs == UNION {[1..n -> WmsLeaves \cup WmsGroups] : n \in 1..2}
WmsIds == {"a", "b", "z"}
WmsEntries == {[id |-> "a", name |-> ""], [id |-> "a", name |-> "cfg a"],
               [id |-> "b", name |-> ""], [id |-> "z", name |-> ""]}
WmsEntryLists == UNION {[1..n -> WmsEntries] : n \in 1..2}

\* the search as its comments describe it: a match among the children is kept
RECURSIVE crawlSubLayers_Deep(_, _)
crawlSubLayers_Deep(subLayerInfos, wmsLayerId) ==
    IF subLayerInfos = <<>> THEN <<>>
    ELSE LET layerInfo == Head(subLayerInfos)
         IN IF layerInfo.name = wmsLayerId
            THEN <<layerInfo>>
            ELSE IF /\ layerInfo.subLayers # <<>>
                    /\ crawlSubLayers_Deep(layerInfo.subLayers, wmsLayerId) # <<>>
                 THEN crawlSubLayers_Deep(layerInfo.subLayers, wmsLayerId)
                 ELSE crawlSubLayers_Deep(Tail(subLayerInfos), wmsLayerId)

\* crawlSubLayers returns targetEntry: <<>> for null, <<entry>> otherwise.
\* .some stops at the first callback that returns a truthy value; the callback
\* assigns targetEntry only when the node itself matches, and for a node with
\* subLayers it returns what the inner call returned without assigning it
RECURSIVE crawlSubLayers(_, _)
crawlSubLayers(subLayerInfos, wmsLayerId) ==
    IF subLayerInfos = <<>> THEN <<>>
    ELSE LET layerInfo == Head(subLayerInfos)
         IN IF layerInfo.name = wmsLayerId
            THEN <<layerInfo>>
            ELSE IF /\ layerInfo.subLayers # <<>>
                    /\ crawlSubLayers(layerInfo.subLayers, wmsLayerId) # <<>>
                 THEN <<>>
                 ELSE crawlSubLayers(Tail(subLayerInfos), wmsLayerId)

getWMSLayerTitle(wmsLayer, wmsLayerId) ==
    LET match == crawlSubLayers(wmsLayer.layerInfos, wmsLayerId)
    IN IF match # <<>> /\ match[1].title # "" THEN match[1].title ELSE ""

\* ogc.getLegendUrls: one legend url per requested wms id, in order
getLegendUrls(wmsLayer, ids) == [k \in DOMAIN ids |-> [legendOf |-> ids[k]]]

\* faulty variant: the server title goes before the configured name
wmsSymbologyName_TitleFirst(wmsLayer, le) ==
    IF getWMSLayerTitle(wmsLayer, le.id) # "" THEN getWMSLayerTitle(wmsLayer, le.id)
    ELSE IF le.name # "" THEN le.name
    ELSE le.id

\* config specified name || server specified name || config id
wmsSymbologyName(wmsLayer, le) ==
    IF le.name # "" THEN le.name
    ELSE IF getWMSLayerTitle(wmsLayer, le.id) # ""
         THEN getWMSLayerTitle(wmsLayer, le.id)
         ELSE le.id

\* WmsFC.loadSymbology: the new symbology list; request is what the item's
\* generateWMSSymbology call was given
wmsLoadSymbology(wmsLayer, configLayerEntries) ==
    LET urls == getLegendUrls(wmsLayer, [k \in DOMAIN configLayerEntries |->
                                            configLayerEntries[k].id])
    IN [idx \in DOMAIN urls |->
           [name |-> "null", svgcode |-> "null",
            request |-> [name |-> wmsSymbologyName(wmsLayer, configLayerEntries[idx]),
                         imageUri |-> urls[idx]],
            generated |-> FALSE]]

\* the callback of generateWMSSymbology(name, imageUri).then
thenWMSSymbology(item) ==
    [item EXCEPT !.name = item.request.name, !.svgcode = "svg", !.generated = TRUE]

NoTitleCall == [op |-> "new", id |-> "", ret |-> ""]

InitWms ==
    /\ InitRecord /\ IdleLI /\ IdleFetch /\ IdleRefine
    /\ layerInfos = MakeInfos(SubLayers1)
    /\ attribIndexes = Ascending(LeafIds(layerInfos))
    /\ config = <<>>
    /\ query = NoQuery /\ basicFC = <<>> /\ ident = <<>> /\ IdleMore
    /\ \E cat \in WmsCatalogs, les \in WmsEntryLists :
          wmsFC = [layer |-> [layerInfos |-> cat],
                   layerEntries |-> les,
                   symbology |-> NoSymbology,
                   loaded |-> FALSE,
                   last |-> NoTitleCall]

WmsFrame == UNCHANGED <<recordVars, config, configIsComplete, subConfigs, lastCall,
                        liVars, fetchVars, refineVars, query, basicFC, ident, moreVars>>

GetWMSLayerTitle(wmsLayerId) ==
    /\ wmsFC' = [wmsFC EXCEPT !.last = [op |-> "getWMSLayerTitle", id |-> wmsLayerId,
                                        ret |-> getWMSLayerTitle(wmsFC.layer,
                                                                 wmsLayerId)]]
    /\ WmsFrame

WmsLoadSymbology ==
    /\ ~wmsFC.loaded
    /\ wmsFC' = [wmsFC EXCEPT !.symbology = wmsLoadSymbology(wmsFC.layer,
                                                             wmsFC.layerEntries),
                              !.loaded = TRUE]
    /\ WmsFrame

WMSSymbologyGenerated(k) ==
    /\ k \in DOMAIN wmsFC.symbology
    /\ ~wmsFC.symbology[k].generated
    /\ wmsFC' = [wmsFC EXCEPT !.symbology[k] = thenWMSSymbology(@)]
    /\ WmsFrame

NextWms ==
    \/ \E id \in WmsIds : GetWMSLayerTitle(id)
    \/ WmsLoadSymbology
    \/ \E k \in 1..2 : WMSSymbologyGenerated(k)

SpecWms == InitWms /\ [][NextWms]_vars

(***************************************************************************)
(* Reading through a handle                                                *)
(***************************************************************************)
SourceField(src, field) ==
    CASE src.kind = "pfc" -> IF field = "name" THEN pfcs[src.id].name ELSE "undefined"
      [] src.kind = "dfc" -> LET fc == featClasses[toString(src.id)]
                             IN CASE field = "name" -> fc.name
                                  [] field = "layerType" -> fc.layerType
                                  [] field = "geomType" -> fc.geomType
                                  [] OTHER -> "undefined"
      [] OTHER -> "undefined"

\* handle.name: the stub throws, standardGetName and dynamicLeafGetName read _source.name
getName(h) ==
    IF h.ops["name"] = "iAmError" THEN "Call not supported." ELSE SourceField(h.source, "name")

(***************************************************************************)
(* What the claims speak of                                                *)
(***************************************************************************)
EntriesOf(i) == {k \in DOMAIN config : config[k].index = i}

RECURSIVE Descendants(_)
Descendants(i) ==
    {i} \cup UNION {Descendants(layerInfos[i].subLayerIds[k]) :
                      k \in DOMAIN layerInfos[i].subLayerIds}

\* the sub-layers the tree walk visits
Visited == UNION {Descendants(config[k].index) :
                    k \in {j \in DOMAIN config : ~config[j].stateOnly}}

ResolvedName(i) ==
    IF \E k \in EntriesOf(i) : config[k].name # ""
    THEN config[CHOOSE k \in EntriesOf(i) : config[k].name # ""].name
    ELSE layerInfos[i].name

PlaceholderReads == {"symbology", "name", "state", "layerType"}

AllPlaceholder(h) ==
    /\ h.isPlaceholder
    /\ h.source.kind = "pfc"
    /\ \A o \in DynamicLeafOps :
          h.ops[o] = IF o \in PlaceholderReads THEN "standard" ELSE "iAmError"

AllDynamicLeaf(h) ==
    /\ ~h.isPlaceholder
    /\ h.source.kind = "dfc"
    /\ \A o \in {"symbology", "state", "name", "visibility", "opacity", "query",
                 "formattedAttributes", "geometryType", "layerType", "featureCount",
                 "extent", "setVisibility", "setOpacity", "setQuery",
                 "zoomToBoundary"} : h.ops[o] = "dynamicLeaf"

IssuedPre(id) == issued[id].h # 0 /\ issued[id].pre

\* C1: getChildProxy never throws; it returns the handle the proxy table holds
\* under the index, which is the handle the first call for that index created;
\* a handle it creates is a placeholder on a placeholder state of its own with
\* the empty name.
C1_GetChildProxyCaches ==
    lastCall.op = "getChildProxy" =>
        LET id == lastCall.idx
        IN /\ ~lastCall.threw
           /\ lastCall.ret \in DOMAIN handles
           /\ proxies[id] = lastCall.ret
           /\ issued[id].h # 0 => issued[id].h = lastCall.ret
           /\ (issued[id].h # 0 /\ (issued[id].pre => ~treeBuilt)) =>
                 LET h == handles[lastCall.ret]
                 IN /\ AllPlaceholder(h)
                    /\ pfcs[h.source.id].name = ""
                    /\ \A k \in DOMAIN handles :
                          handles[k].source = h.source => k = lastCall.ret

C1_Witness ==
    /\ lastCall.op = "getChildProxy"
    /\ treeBuilt
    /\ issued[lastCall.idx] = [h |-> lastCall.ret, pre |-> FALSE]
    /\ \E id \in StrIds : IssuedPre(id)

\* C2: a handle getChildProxy gave out before onLoad is a placeholder until
\* onLoad; once onLoad has built the Feature-Class State of its index, the proxy
\* table still holds that same handle, getChildProxy returns it, it is no
\* placeholder and its source is that Feature-Class State.
C2_SameHandleResolved ==
    \A id \in StrIds :
        IssuedPre(id) =>
            LET h == handles[issued[id].h]
            IN /\ proxies[id] = issued[id].h
               /\ ~treeBuilt => h.isPlaceholder
               /\ (treeBuilt /\ id \in DOMAIN featClasses) =>
                     /\ ~h.isPlaceholder
                     /\ h.source = DfcSource(id)
                     /\ getChildProxy([proxies |-> proxies, handles |-> handles,
                                       pfcs |-> pfcs], parseInt(id)).ret = issued[id].h

C2_Witness ==
    /\ treeBuilt
    /\ lastCall.op = "getChildProxy"
    /\ IssuedPre(lastCall.idx)
    /\ lastCall.idx \in DOMAIN featClasses
    /\ parseInt(lastCall.idx) \in Visited

\* C3: every handle of the record either behaves as a placeholder in all the
\* dynamic-leaf operations (flag set, placeholder source, the four placeholder
\* reads and error stubs) or as a dynamic leaf in all of them (flag cleared,
\* Feature-Class source, every operation the dynamic-leaf one): never a mix.
C3_NoMixedHandle ==
    \A k \in DOMAIN handles : AllPlaceholder(handles[k]) \/ AllDynamicLeaf(handles[k])

C3_Witness ==
    /\ treeBuilt
    /\ \E id \in StrIds : IssuedPre(id) /\ AllDynamicLeaf(handles[issued[id].h])
    /\ \E id \in StrIds : IssuedPre(id) /\ AllPlaceholder(handles[issued[id].h])

\* C4 (as claimed): after any conversions, a handle equals a fresh handle
\* converted directly to the kind of its last conversion on the same source.
ConvertFresh(kind, source) ==
    CASE kind = "singleLayer" -> convertToSingleLayer(LayerInterface(source), source)
      [] kind = "featureLayer" -> convertToFeatureLayer(LayerInterface(source), source)
      [] kind = "dynamicLeaf" -> convertToDynamicLeaf(LayerInterface(source), source)
      [] kind = "placeholder" -> convertToPlaceholder(LayerInterface(source), source)

C4_RebindTotal ==
    (li # <<>> /\ liKind # "none") => li[1] = ConvertFresh(liKind, li[1].source)

\* C5 (as claimed): a handle's isPlaceholder flag is set exactly when its
\* source is a Placeholder State.
FlagMatchesSource(h) == h.isPlaceholder <=> h.source.kind = "pfc"

C5_FlagIffPlaceholderSource ==
    /\ \A k \in DOMAIN li : FlagMatchesSource(li[k])
    /\ \A k \in DOMAIN rootProxy : FlagMatchesSource(rootProxy[k])

C7_DefaultingIdempotent ==
    \A id \in DOMAIN fetchHist :
        Len(fetchHist[id]) >= 1 =>
            /\ \A k \in DOMAIN fetchHist[id] : fetchHist[id][k] = fetchHist[id][1]
            /\ id \in DOMAIN subConfigs
            /\ subConfigs[id].defaulted
            /\ subConfigs[id].config = fetchHist[id][1]

C7_Witness ==
    /\ lastFetch.n = 2
    /\ lastFetch.serverName = "srvA"
    /\ fetchHist[lastFetch.id][1].name = ""
    /\ ~configIsComplete
    /\ \E k \in DOMAIN config : toString(config[k].index) = lastFetch.id

FirstDefaulting == lastFetch.n > 0 /\ lastFetch.hadEntry /\ ~lastFetch.wasDefaulted

\* C8 (as claimed): the first fetch of a not-yet-defaulted entry sets name,
\* outfields and state only where the entry has none, and keeps every
\* supplied name, outfields and state.
C8_FillsOnlyMissing ==
    FirstDefaulting =>
        LET b == lastFetch.before
            r == lastFetch.ret
        IN /\ r.name = IF b.name = "" THEN lastFetch.serverName ELSE b.name
           /\ r.outfields = IF "outfields" \in b.has THEN b.outfields ELSE "*"
           /\ r.state = IF "state" \in b.has THEN b.state
                        ELSE [opacity |-> 1, visibility |-> FALSE, query |-> FALSE]

\* C8 (amended): the first fetch of a not-yet-defaulted entry sets name to the
\* server name only when the entry has no name and outfields to '*' only when
\* it has none, keeping a supplied name and outfields; state is always set to
\* the dummy {opacity 1, visibility false, query false}, a supplied state
\* included; index and stateOnly are kept.
C8_StateAlwaysDummy ==
    FirstDefaulting =>
        LET b == lastFetch.before
            r == lastFetch.ret
        IN /\ r.name = IF b.name = "" THEN lastFetch.serverName ELSE b.name
           /\ r.outfields = IF "outfields" \in b.has THEN b.outfields ELSE "*"
           /\ r.state = [opacity |-> 1, visibility |-> FALSE, query |-> FALSE]
           /\ r.index = b.index
           /\ r.stateOnly = b.stateOnly

C8_Witness ==
    /\ FirstDefaulting
    /\ {"name", "outfields", "state"} \subseteq lastFetch.before.has
    /\ lastFetch.before.state.visibility
    /\ lastFetch.ret.name = lastFetch.before.name
    /\ lastFetch.ret.outfields = "fieldA"
    /\ ~lastFetch.ret.state.visibility

\* C9: after onLoad, every sub-layer the walk visited that has no
\* configuration entry has, under its string index, a defaulted sub-config
\* with the server name, the dummy state, outfields '*', its integer index
\* and stateOnly true.
C9_GapGetsDefaults ==
    treeBuilt =>
        \A i \in Visited :
            EntriesOf(i) = {} =>
                /\ toString(i) \in DOMAIN subConfigs
                /\ subConfigs[toString(i)].defaulted
                /\ LET c == subConfigs[toString(i)].config
                   IN /\ c.name = layerInfos[i].name
                      /\ c.state = [opacity |-> 1, visibility |-> FALSE, query |-> FALSE]
                      /\ c.outfields = "*"
                      /\ c.index = i
                      /\ c.stateOnly

C9_Witness ==
    /\ treeBuilt
    /\ \E i \in Visited :
          /\ EntriesOf(i) = {}
          /\ subConfigs[toString(i)].config.name = SrvNames[i + 1]

\* the configured roots of the tree, in configuration order
RECURSIVE RootIds(_)
RootIds(les) ==
    IF les = <<>> THEN <<>>
    ELSE (IF Head(les).stateOnly THEN <<>> ELSE <<Head(les).index>>) \o RootIds(Tail(les))

RECURSIVE Mirrors(_, _)
Mirrors(node, i) ==
    /\ node.entryIndex = i
    /\ IF Len(layerInfos[i].subLayerIds) > 0
       THEN /\ DOMAIN node = {"entryIndex", "name", "childs"}
            /\ Len(node.childs) = Len(layerInfos[i].subLayerIds)
            /\ \A k \in DOMAIN node.childs :
                  Mirrors(node.childs[k], layerInfos[i].subLayerIds[k])
       ELSE DOMAIN node = {"entryIndex"}

ExampleInput ==
    /\ layerInfos = MakeInfos(SubLayers1)
    /\ Len(config) = 1
    /\ config[1].index = 1
    /\ ~config[1].stateOnly

\* C10: the tree has one root per non-stateOnly entry, in configuration order,
\* each the node of the sub-layer with the entry's index; a sub-layer with
\* children is a group whose children are the nodes of its child ids in order,
\* any other a leaf. For {1:[2,3]}, {2}, {3:[4]}, {4} and a configuration
\* naming only 1 the tree is group 1 holding leaf 2 and group 3 holding leaf 4.
C10_TreeMirrorsHierarchy ==
    treeBuilt =>
        /\ Len(childTree) = Len(RootIds(config))
        /\ \A k \in DOMAIN childTree : Mirrors(childTree[k], RootIds(config)[k])
        /\ ExampleInput =>
              /\ Len(childTree) = 1
              /\ childTree[1].entryIndex = 1
              /\ Len(childTree[1].childs) = 2
              /\ childTree[1].childs[1] = [entryIndex |-> 2]
              /\ childTree[1].childs[2].entryIndex = 3
              /\ childTree[1].childs[2].childs = <<[entryIndex |-> 4]>>

C10_Witness ==
    /\ treeBuilt
    /\ ExampleInput
    /\ childTree[1].childs[2].childs = <<[entryIndex |-> 4]>>

\* the indexes of the leaf nodes of a tree
RECURSIVE TreeLeaves(_)
TreeLeaves(nodes) ==
    IF nodes = <<>> THEN {}
    ELSE (IF "childs" \in DOMAIN Head(nodes)
          THEN TreeLeaves(Head(nodes).childs)
          ELSE {Head(nodes).entryIndex}) \cup TreeLeaves(Tail(nodes))

\* C11: once onLoad has run, every leaf node of the tree has a Feature-Class
\* State in the table under its string index (the table holds one per key),
\* built for that index, and the handle the proxy table holds under the index
\* is no placeholder and has that Feature-Class State as its source.
C11_LeafHasFeatClass ==
    treeBuilt =>
        \A i \in TreeLeaves(childTree) :
            LET id == toString(i)
            IN /\ id \in DOMAIN featClasses
               /\ featClasses[id].idx = id
               /\ proxies[id] # 0
               /\ ~handles[proxies[id]].isPlaceholder
               /\ handles[proxies[id]].source = DfcSource(id)
               /\ AllDynamicLeaf(handles[proxies[id]])

C11_Witness ==
    /\ treeBuilt
    /\ \E i, j \in TreeLeaves(childTree) :
          /\ IssuedPre(toString(i))
          /\ issued[toString(j)].h = 0
          /\ ~handles[proxies[toString(j)]].isPlaceholder

OnLoadThrew == lastCall.op = "onLoad" /\ lastCall.threw

\* C12 (as claimed): with configIsComplete set and no resolved sub-config
\* visible, onLoad does not throw and calls setVisibleLayers exactly once,
\* with the list [-1], whether or not the feature-class table is empty.
C12_HideAllSentinel ==
    (/\ treeBuilt
     /\ configIsComplete
     /\ \A id \in DOMAIN subConfigs : ~subConfigs[id].config.state.visibility) =>
        /\ ~OnLoadThrew
        /\ visCalls = << <<-1>> >>

\* the Feature-Class States whose resolved sub-config is visible
VisibleFcs == {id \in DOMAIN featClasses : subConfigs[id].config.state.visibility}

\* C13 (as claimed): with configIsComplete set and a visible sub-layer among
\* the Feature-Class States, onLoad calls setVisibleLayers exactly once, with
\* exactly the integer indexes of the Feature-Class States whose resolved
\* sub-config is visible.
C13_VisibleIndicesApplied ==
    (treeBuilt /\ configIsComplete /\ VisibleFcs # {}) =>
        /\ ~OnLoadThrew
        /\ Len(visCalls) = 1
        /\ Len(visCalls[1]) = Cardinality(VisibleFcs)
        /\ {visCalls[1][k] : k \in DOMAIN visCalls[1]} =
              {parseInt(id) : id \in VisibleFcs}

\* C14: a getChildTree call throws exactly when onLoad has not yet assigned the
\* tree: every call before onLoad throws and returns nothing, every call
\* after it returns the tree onLoad built, an empty tree included.
C14_GetChildTreeGuard ==
    /\ getChildTree(childTreeField).threw <=> ~treeBuilt
    /\ lastCall.op = "getChildTree" =>
          /\ lastCall.threw <=> ~treeBuilt
          /\ treeRet = IF treeBuilt THEN <<childTree>> ELSE <<>>

C14_Witness ==
    /\ lastCall.op = "getChildTree"
    /\ ~lastCall.threw
    /\ treeRet = << <<>> >>
    /\ config # <<>>

\* the indexes the Feature-Class loop builds a state for
ExpectedFcs ==
    {attribIndexes[k] : k \in DOMAIN attribIndexes} \cap
    {idx \in DOMAIN subConfigs : subConfigs[idx].defaulted}

\* what a callback that has run found
RanAfterLoop(p) ==
    p.status = "fulfilled" =>
        /\ p.sawTree
        /\ p.sawFcs = ExpectedFcs
        /\ p.sawFcs = DOMAIN featClasses

\* C15: before onLoad there is no Feature-Class State and no promise; every
\* callback that has run found the tree assigned and the Feature-Class States
\* of all the reported indexes with a defaulted sub-config in the table: no
\* write happens while the walk or the Feature-Class loop is in progress.
C15_RefineAfterLoop ==
    /\ ~treeBuilt => (refine = EmptyMap /\ featClasses = EmptyMap)
    /\ DOMAIN refine = DOMAIN featClasses
    /\ \A idx \in DOMAIN refine :
          RanAfterLoop(refine[idx].ld) /\ RanAfterLoop(refine[idx].count)

C15_Witness ==
    /\ Cardinality(DOMAIN featClasses) >= 2
    /\ \E idx \in DOMAIN refine :
          /\ refine[idx].ld.status = "fulfilled"
          /\ refine[idx].count.status = "fulfilled"
          /\ refine[idx].ld.sawFcs = DOMAIN featClasses

OutcomeOf(p) == [ok |-> p.status = "fulfilled", value |-> p.value]

\* C16: in every state, whatever the order in which the promises settled,
\* each Feature-Class State is the state onLoad built for its index with the
\* results of its own settled promises applied; and the last callback left
\* the Feature-Class State of every other index as it was.
C16_LeavesIndependent ==
    /\ \A idx \in DOMAIN featClasses :
          featClasses[idx] =
              thenFeatureCount(
                  thenLayerData(DynamicFC(idx, subConfigs[idx].config),
                                OutcomeOf(refine[idx].ld)),
                  OutcomeOf(refine[idx].count))
    /\ lastRefine.kind # "none" =>
          \A j \in DOMAIN featClasses \ {lastRefine.idx} :
              featClasses[j] = lastRefine.before[j]

C16_Witness ==
    /\ \E i, j \in DOMAIN featClasses :
          /\ i # j
          /\ lastRefine.idx = i
          /\ refine[i].ld.status = "fulfilled"
          /\ refine[j].ld.status = "fulfilled"
          /\ refine[j].count.status = "fulfilled"
          /\ refine[i].count.status = "pending"
          /\ featClasses[i].layerType # featClasses[j].layerType

\* C17: once onLoad has run, in every state, whatever promises are pending,
\* fulfilled or rejected, getChildTree does not throw and returns the tree,
\* and every leaf of the tree has a Feature-Class State and a handle that is
\* no placeholder and has that state as its source.
C17_ResolvedWithoutRefinement ==
    treeBuilt =>
        /\ getChildTree(childTreeField) = [threw |-> FALSE, ret |-> <<childTree>>]
        /\ \A i \in TreeLeaves(childTree) :
              /\ toString(i) \in DOMAIN featClasses
              /\ ~handles[proxies[toString(i)]].isPlaceholder
              /\ handles[proxies[toString(i)]].source.kind = "dfc"
              /\ featClasses[toString(handles[proxies[toString(i)]].source.id)].idx
                    = toString(i)

C17_Witness ==
    /\ lastCall.op = "getChildTree"
    /\ ~lastCall.threw
    /\ TreeLeaves(childTree) # {}
    /\ \A idx \in DOMAIN refine :
          refine[idx].ld.status = "pending" /\ refine[idx].count.status = "pending"
    /\ \A i \in TreeLeaves(childTree) : ~handles[proxies[toString(i)]].isPlaceholder

LastPromise ==
    IF lastRefine.kind = "layerData" THEN refine[lastRefine.idx].ld
    ELSE refine[lastRefine.idx].count

\* C18: a Feature-Class State whose layer-data promise was rejected has the
\* layerType and geomType its constructor gave it, one whose feature-count
\* promise was rejected the constructor's featureCount; one fetch was issued
\* for it and it stays rejected; and the rejection left the whole table,
\* every other leaf included, as it was.
C18_FailedKeepsField ==
    /\ \A idx \in DOMAIN refine :
          LET fresh == DynamicFC(idx, subConfigs[idx].config)
          IN /\ refine[idx].ld.status = "rejected" =>
                   /\ featClasses[idx].layerType = fresh.layerType
                   /\ featClasses[idx].geomType = fresh.geomType
                   /\ refine[idx].ld.fetches = 1
             /\ refine[idx].count.status = "rejected" =>
                   /\ featClasses[idx].featureCount = fresh.featureCount
                   /\ refine[idx].count.fetches = 1
    /\ (lastRefine.kind # "none" /\ LastPromise.status = "rejected") =>
          featClasses = lastRefine.before

C18_Witness ==
    /\ lastRefine.kind = "layerData"
    /\ LastPromise.status = "rejected"
    /\ \E j \in DOMAIN featClasses \ {lastRefine.idx} :
          /\ refine[j].count.status = "rejected"
          /\ refine[j].ld.status = "fulfilled"
          /\ featClasses[j].layerType = "esriFeature"

\* C19: when the layer data of a leaf arrived, its layerType is esriFeature
\* for 'Feature Layer', esriRaster for 'Raster Layer' and unknown for any
\* other kind (the callback completes in that case too); geomType is the
\* geometry type of the layer data for the feature kind and is left as the
\* constructor set it for the raster and unknown kinds.
C19_UnknownKindMapped ==
    \A idx \in DOMAIN refine :
        refine[idx].ld.status = "fulfilled" =>
            LET ld == refine[idx].ld.value
                fc == featClasses[idx]
            IN /\ ld.layerType \notin {"Feature Layer", "Raster Layer"} =>
                     fc.layerType = "unknown"
               /\ ld.layerType = "Feature Layer" =>
                     (fc.layerType = "esriFeature" /\ fc.geomType = ld.geometryType)
               /\ ld.layerType = "Raster Layer" => fc.layerType = "esriRaster"
               /\ ld.layerType # "Feature Layer" =>
                     fc.geomType = DynamicFC(idx, subConfigs[idx].config).geomType

C19_Witness ==
    \E idx \in DOMAIN refine :
        /\ refine[idx].ld.status = "fulfilled"
        /\ refine[idx].ld.value.layerType = "Annotation Layer"
        /\ refine[idx].ld.value.geometryType = "esriGeometryPoint"
        /\ featClasses[idx].layerType = "unknown"
        /\ featClasses[idx].geomType = "undefined"

\* the operations a placeholder cannot perform
PlaceholderCannot == OpNames \ PlaceholderReads

\* C20 (as claimed): on a handle last converted to a placeholder, whose flag is
\* set and whose source is a Placeholder State, each of the thirteen
\* operations a placeholder cannot perform is the error-throwing stub, and
\* symbology, name, state and layerType are the getters that read the source.
C20_PlaceholderFailsFast ==
    \A k \in DOMAIN li :
        (liKind = "placeholder" /\ li[k].isPlaceholder /\ li[k].source.kind = "pfc") =>
            /\ \A o \in PlaceholderCannot : li[k].ops[o] = "iAmError"
            /\ \A o \in PlaceholderReads : li[k].ops[o] = "standard"

(***************************************************************************)
(* The Feature-Class loop, the proxy table and the tree, once more         *)
(***************************************************************************)
Reported == {attribIndexes[k] : k \in DOMAIN attribIndexes}

\* what the loop body leaves behind for an index it accepts
LoopActed(idx) ==
    /\ idx \in DOMAIN featClasses
    /\ featClasses[idx].idx = idx
    /\ featClasses[idx].name = subConfigs[idx].config.name
    /\ idx \in DOMAIN refine
    /\ refine[idx].symbologyLoads = 1
    /\ refine[idx].ld.fetches = 1
    /\ refine[idx].count.fetches = 1
    /\ IssuedPre(idx) =>
          /\ ~handles[issued[idx].h].isPlaceholder
          /\ handles[issued[idx].h].source = DfcSource(idx)

\* C26 (as claimed): once onLoad has run, every reported index with an entry
\* in the sub-config table, whether the configuration gave it (stateOnly
\* entries included) or the walk created it, has a Feature-Class State, a
\* converted handle, a symbology load and the two refinements; a reported
\* index with no entry has none.
C26_EveryEntryGetsFeatClass ==
    treeBuilt =>
        \A idx \in Reported :
            IF idx \in DOMAIN subConfigs
            THEN LoopActed(idx)
            ELSE idx \notin DOMAIN featClasses

\* C26 (amended): the loop acts on a reported index exactly when its entry is
\* marked defaulted (an entry of a complete configuration, or one the walk
\* defaulted or created); a reported index whose entry is not defaulted, or
\* that has no entry, gets no Feature-Class State and no refinement.
C26_DefaultedEntryGetsFeatClass ==
    treeBuilt =>
        \A idx \in Reported :
            IF idx \in DOMAIN subConfigs /\ subConfigs[idx].defaulted
            THEN LoopActed(idx)
            ELSE idx \notin DOMAIN featClasses /\ idx \notin DOMAIN refine

C26_Witness ==
    /\ treeBuilt
    /\ \E k \in DOMAIN config :
          /\ config[k].stateOnly
          /\ toString(config[k].index) \in Reported
          /\ toString(config[k].index) \in DOMAIN subConfigs
          /\ ~subConfigs[toString(config[k].index)].defaulted
          /\ toString(config[k].index) \notin DOMAIN featClasses
    /\ \E idx \in Reported : IssuedPre(idx) /\ idx \in DOMAIN featClasses

\* C28 (as claimed): SimpleRecord.getProxy never throws; it returns the
\* record's one handle, bound to the record and no placeholder, on the first
\* call and on every later one.
C28_SimpleProxyConverted ==
    lastCall.op = "getProxy" =>
        /\ ~lastCall.threw
        /\ lastCall.ret = 1
        /\ Len(rootProxy) = 1
        /\ rootProxy[1].source = RecordSource
        /\ ~rootProxy[1].isPlaceholder

KeyHoldsHandleOfIndex ==
    \A n \in Ids :
        LET key == toString(n)
        IN /\ parseInt(key) = n
           /\ issued[key].h # 0 => proxies[key] = issued[key].h
           /\ (treeBuilt /\ n \in TreeLeaves(childTree)) => proxies[key] # 0
           /\ (/\ treeBuilt
               /\ key \in DOMAIN featClasses
               /\ IssuedPre(key) \/ n \in TreeLeaves(childTree)) =>
                 handles[proxies[key]].source = DfcSource(key)

KeyNeverRebound ==
    \A id \in StrIds :
        /\ proxies[id] # 0 => proxies'[id] = proxies[id]
        /\ proxies[id] # 0 => proxies[id] \in DOMAIN handles

\* C29: the proxy table only grows: a key that holds a handle holds that same
\* handle after every step. The key of sub-layer n is the decimal string of n,
\* so the handle getChildProxy(n) created is the one under that key, the one
\* the walk rebinds for leaf n and the one the Feature-Class loop converts.
C29_ProxyTableGrows == []KeyHoldsHandleOfIndex /\ [][KeyNeverRebound]_vars

C29_Witness ==
    /\ treeBuilt
    /\ \E n \in Ids :
          /\ IssuedPre(toString(n))
          /\ n \in TreeLeaves(childTree)
          /\ proxies[toString(n)] = issued[toString(n)].h
          /\ handles[proxies[toString(n)]].source = DfcSource(toString(n))
    /\ \E id \in StrIds : proxies[id] # 0 /\ issued[id].h = 0

\* the indexes of all the nodes of a tree
RECURSIVE TreeNodes(_)
TreeNodes(nodes) ==
    IF nodes = <<>> THEN {}
    ELSE {Head(nodes).entryIndex}
         \cup (IF "childs" \in DOMAIN Head(nodes)
               THEN TreeNodes(Head(nodes).childs) ELSE {})
         \cup TreeNodes(Tail(nodes))

StateOnlyIds == {config[k].index : k \in {j \in DOMAIN config : config[j].stateOnly}}

\* C30 (as claimed): no node of the tree, at any depth, has the index of a
\* stateOnly configuration entry, also when the entry's sub-layer is a child
\* of a configured group that is not stateOnly.
C30_NoStateOnlyNode ==
    treeBuilt => TreeNodes(childTree) \cap StateOnlyIds = {}

\* C30 (amended): no root of the tree comes from a stateOnly entry; the nodes
\* are the sub-layers of the entries that are not stateOnly and all their
\* descendants, so the index of a stateOnly entry is a node exactly when it is
\* such a sub-layer or descendant.
C30_StateOnlyOnlyBelowGroups ==
    treeBuilt =>
        /\ Len(childTree) = Cardinality({k \in DOMAIN config : ~config[k].stateOnly})
        /\ TreeNodes(childTree) = Visited
        /\ \A i \in StateOnlyIds :
              i \in TreeNodes(childTree) <=>
                  \E j \in DOMAIN config :
                      ~config[j].stateOnly /\ i \in Descendants(config[j].index)

C30_Witness ==
    /\ treeBuilt
    /\ \E i \in StateOnlyIds :
          /\ i \in TreeNodes(childTree)
          /\ \A k \in DOMAIN childTree : childTree[k].entryIndex # i

(***************************************************************************)
(* BasicFC: scale visibility and the legend load                           *)
(***************************************************************************)
\* C22 (as claimed): isOffScale answers off-scale with zoom-in as the fix when
\* mapScale < maxScale and maxScale is not 0; else off-scale with zoom-out as
\* the fix when mapScale > minScale and minScale is not 0; else on-scale.
C22_ZoomInBelowMaxScale ==
    basicFC # <<>> /\ basicFC.last.op = "isOffScale" =>
        LET mapScale == basicFC.last.mapScale
            l == basicFC.layer
            result == basicFC.last.result
        IN IF mapScale < l.maxScale /\ l.maxScale # 0
           THEN result.offScale /\ result.zoomIn
           ELSE IF mapScale > l.minScale /\ l.minScale # 0
                THEN result.offScale /\ ~result.zoomIn
                ELSE ~result.offScale

\* C22 (amended): isOffScale answers off-scale with zoomIn false (zooming out
\* is the fix) when mapScale < maxScale and maxScale is not 0; else off-scale
\* with zoomIn true (zooming in is the fix) when mapScale > minScale and
\* minScale is not 0; else on-scale with zoomIn false. With minScale 0 and
\* maxScale 5000, 4000 is off-scale with zoomIn false and 6000 is on-scale;
\* with minScale 10000 and maxScale 0, 20000 is off-scale with zoomIn true.
C22_ZoomOutBelowMaxScale ==
    basicFC # <<>> /\ basicFC.last.op = "isOffScale" =>
        LET mapScale == basicFC.last.mapScale
            l == basicFC.layer
            result == basicFC.last.result
        IN /\ IF mapScale < l.maxScale /\ l.maxScale # 0
              THEN result.offScale /\ ~result.zoomIn
              ELSE IF mapScale > l.minScale /\ l.minScale # 0
                   THEN result.offScale /\ result.zoomIn
                   ELSE ~result.offScale /\ ~result.zoomIn
           /\ (l.minScale = 0 /\ l.maxScale = 5000 /\ mapScale = 4000) =>
                 result = [offScale |-> TRUE, zoomIn |-> FALSE]
           /\ (l.minScale = 0 /\ l.maxScale = 5000 /\ mapScale = 6000) =>
                 ~result.offScale
           /\ (l.minScale = 10000 /\ l.maxScale = 0 /\ mapScale = 20000) =>
                 result = [offScale |-> TRUE, zoomIn |-> TRUE]

C22_Witness ==
    /\ basicFC # <<>>
    /\ basicFC.last.op = "isOffScale"
    /\ basicFC.layer.minScale = 10000
    /\ basicFC.layer.maxScale = 0
    /\ basicFC.last.mapScale = 20000
    /\ basicFC.last.result.offScale

Fulfilled(fc) == {k \in DOMAIN fc.fetches : fc.fetches[k].status = "fulfilled"}

\* C25: without a url loadSymbology throws to its caller, requests no legend
\* however often it is called, and the symbology stays what it was; with a
\* url every call requests the legend of the class's own index from that url,
\* and the symbology changes only when such a request resolves, to the
\* converted legend.
C25_LoadSymbologyNeedsUrl ==
    basicFC # <<>> =>
        IF basicFC.layer.url = ""
        THEN /\ basicFC.last.op = "loadSymbology" => basicFC.last.threw
             /\ basicFC.fetches = <<>>
             /\ basicFC.symbology = NoSymbology
        ELSE /\ basicFC.last.op = "loadSymbology" =>
                   /\ ~basicFC.last.threw
                   /\ Len(basicFC.fetches) = basicFC.last.n
             /\ \A k \in DOMAIN basicFC.fetches :
                   /\ basicFC.fetches[k].url = basicFC.layer.url
                   /\ basicFC.fetches[k].idx = basicFC.idx
             /\ IF Fulfilled(basicFC) = {}
                THEN basicFC.symbology = NoSymbology
                ELSE \E k \in Fulfilled(basicFC) :
                        basicFC.symbology = makeSymbologyArray(basicFC.fetches[k].legend)

C25_Witness ==
    /\ basicFC # <<>>
    /\ basicFC.layer.url = ""
    /\ basicFC.last.op = "loadSymbology"
    /\ basicFC.last.n = 2
    /\ basicFC.last.threw

(***************************************************************************)
(* WmsFC: the title lookup and the symbology names                         *)
(***************************************************************************)
\* the nodes of a catalog in pre-order
RECURSIVE PreOrder(_)
PreOrder(infos) ==
    IF infos = <<>> THEN <<>>
    ELSE <<Head(infos)>> \o PreOrder(Head(infos).subLayers) \o PreOrder(Tail(infos))

FirstNamed(infos, id) ==
    LET nodes == PreOrder(infos)
        hits == {k \in DOMAIN nodes : nodes[k].name = id}
    IN IF hits = {} THEN <<>>
       ELSE <<nodes[CHOOSE k \in hits : \A j \in hits : k <= j]>>

\* C23 (as claimed): getWMSLayerTitle returns the title of the first node in
\* pre-order whose name is the identifier, at whatever depth it is, and ''
\* when no node has that name or the node found has no title.
C23_TitleOfFirstMatch ==
    wmsFC # <<>> /\ wmsFC.last.op = "getWMSLayerTitle" =>
        LET first == FirstNamed(wmsFC.layer.layerInfos, wmsFC.last.id)
        IN wmsFC.last.ret = IF first = <<>> THEN "" ELSE first[1].title

\* C24: loadSymbology makes exactly one symbology item per legend url, that
\* is one per configured entry and in the entries' order, and names each with
\* the entry's configured name when it has one, else with the title the
\* catalog lookup returns when that is not '', else with the entry's id.
C24_SymbologyNameFallback ==
    wmsFC # <<>> /\ wmsFC.loaded =>
        /\ Len(wmsFC.symbology) = Len(wmsFC.layerEntries)
        /\ \A k \in DOMAIN wmsFC.symbology :
              LET le == wmsFC.layerEntries[k]
                  item == wmsFC.symbology[k]
                  title == getWMSLayerTitle(wmsFC.layer, le.id)
              IN /\ item.request.imageUri = [legendOf |-> le.id]
                 /\ item.request.name = IF le.name # "" THEN le.name
                                        ELSE IF title # "" THEN title
                                        ELSE le.id
                 /\ item.generated => item.name = item.request.name

C24_Witness ==
    /\ wmsFC # <<>>
    /\ wmsFC.loaded
    /\ Len(wmsFC.symbology) = 2
    /\ wmsFC.layerEntries[1].name # ""
    /\ wmsFC.layerEntries[2].name = ""
    /\ getWMSLayerTitle(wmsFC.layer, wmsFC.layerEntries[1].id) # ""
    /\ wmsFC.symbology[1].request.name = wmsFC.layerEntries[1].name
    /\ wmsFC.symbology[2].request.name = getWMSLayerTitle(wmsFC.layer,
                                                          wmsFC.layerEntries[2].id)
    /\ wmsFC.symbology[2].request.name # ""

(***************************************************************************)
(* The per-index queries                                                   *)
(***************************************************************************)
\* a query was made for an index that had its Feature-Class State
Queried == query.op \in QueryOps /\ query.fcAt # <<>>

\* C21 (as claimed): once the Feature-Class States exist, each of the eight
\* per-index queries for index i returns what the Feature-Class State stored
\* under i answers for that query, and consults no other index's state.
C21_QueriesDelegate ==
    Queried =>
        /\ ~query.threw
        /\ query.consulted \subseteq {query.idx}
        /\ query.value = FcAnswer(query.fcAt[1], query.op)

\* C21 (amended): isQueryable, isOffScale, getFeatureName, getSymbology,
\* getAttribs, getFormattedAttributes and getLayerData for index i return what
\* the Feature-Class State stored under i answers and consult no other state.
\* getFeatureCount consults no Feature-Class State: it requests the count from
\* the layer's url followed by '/' and i and returns that request's result,
\* whatever the featureCount field of the state under i holds.
C21_AllButCountDelegate ==
    Queried =>
        /\ ~query.threw
        /\ IF query.op \in Delegators
           THEN /\ query.consulted = {query.idx}
                /\ query.value = FcAnswer(query.fcAt[1], query.op)
                /\ query.request = <<>>
           ELSE /\ query.consulted = {}
                /\ query.request = <<[url |-> LayerUrl, idx |-> query.idx]>>
                /\ query.value \in {<<>>} \cup {<<c>> : c \in Counts}

C21_Witness ==
    /\ query.op = "getFeatureCount"
    /\ query.fcAt # <<>>
    /\ query.value # <<>>
    /\ query.fcAt[1].featureCount # NoCount
    /\ query.fcAt[1].featureCount # query.value[1]
    /\ Cardinality(DOMAIN featClasses) > 1

(***************************************************************************)
(* identify                                                                *)
(***************************************************************************)
RequestedLeaves == {ident.layerIds[k] : k \in DOMAIN ident.layerIds}

\* the hits whose entry bucket l holds
HitsIn(l) == {ident.results[l].data[j].hit : j \in DOMAIN ident.results[l].data}

\* C27: identify hands back exactly one bucket per distinct leaf index of
\* opts.layerIds, each for its leaf, and one promise; a hit whose layer data
\* has arrived has its entry in the bucket of its own leaf, once, when that
\* leaf supports features, and in no other bucket.
C27_OneBucketPerLeaf ==
    ident # <<>> =>
        /\ ident.promises = 1
        /\ Len(ident.returned) = Cardinality(RequestedLeaves)
        /\ {ident.results[ident.returned[k]].requester.featureIdx :
               k \in DOMAIN ident.returned} = RequestedLeaves
        /\ \A l \in DOMAIN ident.results :
              /\ \E k \in DOMAIN ident.returned : ident.returned[k] = l
              /\ Cardinality(HitsIn(l)) = Len(ident.results[l].data)
              /\ HitsIn(l) = {k \in ident.arrived :
                                 /\ ident.clickResults[k].layerId = l
                                 /\ ident.lData[l].supportsFeatures}
              /\ \A j \in DOMAIN ident.results[l].data :
                    ident.results[l].data[j].name =
                        ident.clickResults[ident.results[l].data[j].hit].value

C27_Witness ==
    /\ ident # <<>>
    /\ Len(ident.layerIds) = 3
    /\ Len(ident.returned) = 2
    /\ ident.arrived = {1, 2}
    /\ ident.clickResults[1].layerId # ident.clickResults[2].layerId
    /\ \A l \in RequestedLeaves : Len(ident.results[l].data) = 1

(***************************************************************************)
(* Queries without a Feature-Class State, scale bounds, the query flag,    *)
(* and the visible-layer list of an incomplete configuration               *)
(***************************************************************************)
Throwers == {"isQueryable", "isOffScale", "getSymbology", "getFeatureName",
             "getAttribs", "getLayerData"}

\* a query leaves everything but its own result as it was
QueryIsRead ==
    (query'.tick # query.tick /\ query'.op \in QueryOps) =>
        UNCHANGED <<recordVars, config, configIsComplete, subConfigs, refine>>

\* C31: isQueryable, isOffScale, getSymbology, getFeatureName, getAttribs and
\* getLayerData for an index with no Feature-Class State (before onLoad, or an
\* index onLoad did not resolve) throw at once, return nothing, and change no
\* state of the record.
C31_QueryWithoutFcThrows ==
    /\ [](query.op \in Throwers /\ query.fcAt = <<>> =>
             /\ query.threw
             /\ query.value = <<>>
             /\ query.consulted = {})
    /\ [][QueryIsRead]_vars

C31_Witness ==
    /\ treeBuilt
    /\ featClasses # EmptyMap
    /\ query.op \in Throwers
    /\ query.fcAt = <<>>
    /\ query.idx \notin DOMAIN featClasses
    /\ query.threw

\* C32: isOffScale says off-scale exactly when (maxScale is not 0 and mapScale
\* < maxScale) or (minScale is not 0 and mapScale > minScale); a map scale
\* equal to a bound is on-scale, a bound of 0 hides nothing, zoomIn is false
\* whenever offScale is false, and when both rules apply the maxScale rule
\* decides the direction (zoomIn false).
C32_OffScaleExactly ==
    basicFC # <<>> /\ basicFC.last.op = "isOffScale" =>
        LET mapScale == basicFC.last.mapScale
            mn == basicFC.layer.minScale
            mx == basicFC.layer.maxScale
            result == basicFC.last.result
            belowMax == mx # 0 /\ mapScale < mx
            aboveMin == mn # 0 /\ mapScale > mn
        IN /\ result.offScale <=> (belowMax \/ aboveMin)
           /\ (mapScale = mx /\ ~aboveMin) => ~result.offScale
           /\ (mapScale = mn /\ ~belowMax) => ~result.offScale
           /\ (mn = 0 /\ mx = 0) => ~result.offScale
           /\ ~result.offScale => ~result.zoomIn
           /\ (belowMax /\ aboveMin) => ~result.zoomIn
           /\ (aboveMin /\ ~belowMax) => result.zoomIn

C32_Witness ==
    /\ basicFC # <<>>
    /\ basicFC.last.op = "isOffScale"
    /\ basicFC.layer.minScale = 5000
    /\ basicFC.layer.maxScale = 10000
    /\ basicFC.last.mapScale = 6000
    /\ basicFC.last.result = [offScale |-> TRUE, zoomIn |-> FALSE]

\* C33: after setQuery(v) through the resolved handle of index i, the handle's
\* query and the record's isQueryable(i) both give v, and the queryable flag
\* of every other Feature-Class State is what it was before the call.
C33_SetQueryLocal ==
    (query.op = "setQuery" /\ ~query.threw) =>
        LET i == query.idx
            v == query.value[1]
        IN /\ getQuery(handles[proxies[i]], featClasses) = [threw |-> FALSE,
                                                            value |-> <<v>>]
           /\ recordQuery(featClasses, "isQueryable", i,
                          [ok |-> FALSE, value |-> NoCount]).value = <<v>>
           /\ \A other \in DOMAIN featClasses \ {i} :
                 featClasses[other].queryable = query.before[other].queryable

C33_Witness ==
    /\ query.op = "setQuery"
    /\ ~query.threw
    /\ query.before[query.idx].queryable # query.value[1]
    /\ \E other \in DOMAIN featClasses \ {query.idx} :
          featClasses[other].queryable # query.value[1]

\* C34: a record made with configIsComplete false never has setVisibleLayers
\* called by onLoad, whatever visibility the configuration entries give.
C34_IncompleteNeverSetsVisible ==
    ~configIsComplete => visCalls = <<>>

C34_Witness ==
    /\ treeBuilt
    /\ ~configIsComplete
    /\ featClasses # EmptyMap
    /\ \E k \in DOMAIN config : "state" \in config[k].has /\ config[k].state.visibility
(***************************************************************************)
(* Completion of identify                                                  *)
(***************************************************************************)
\* C36: when the completion future of identify has resolved, as its caller
\* observes it, every returned bucket has isLoading false.
C36_CompleteMeansLoaded ==
    (ident # <<>> /\ ident.observed) =>
        \A k \in DOMAIN ident.returned : ~ident.results[ident.returned[k]].isLoading

(***************************************************************************)
(* SimpleRecord: the hover listener list                                   *)
(***************************************************************************)
MaxListeners == 3
Listeners == {"cb1", "cb2"}

\* Array.prototype.indexOf: the 0-based position of the first occurrence, -1
\* when there is none
indexOf(list, cb) ==
    IF \E k \in DOMAIN list : list[k] = cb
    THEN (CHOOSE k \in DOMAIN list :
              list[k] = cb /\ \A j \in 1..(k - 1) : list[j] # cb) - 1
    ELSE -1

\* Array.prototype.splice(idx, 1): the element at 0-based idx is taken out
splice1(list, idx) ==
    [k \in 1..(Len(list) - 1) |-> IF k <= idx THEN list[k] ELSE list[k + 1]]

\* this._hoverListeners.push(listenerCallback)
addHoverListener(list, cb) == Append(list, cb)

\* faulty variant: every occurrence of the callback is taken out
removeHoverListener_All(list, cb) ==
    IF indexOf(list, cb) < 0
    THEN [threw |-> TRUE, list |-> list]
    ELSE [threw |-> FALSE, list |-> SelectSeq(list, LAMBDA x : x # cb)]

removeHoverListener(list, cb) ==
    LET idx == indexOf(list, cb)
    IN IF idx < 0
       THEN [threw |-> TRUE, list |-> list]
       ELSE [threw |-> FALSE, list |-> splice1(list, idx)]

NoHoverCall == [op |-> "none", cb |-> "", threw |-> FALSE, before |-> <<>>]

SimpleFrame == UNCHANGED <<recordVars, config, configIsComplete, subConfigs, lastCall,
                           liVars, fetchVars, refineVars, query, basicFC, wmsFC,
                           ident, featRec, copies>>

\* new SimpleRecord(...): this._hoverListeners = []
InitSimple ==
    /\ InitRecord /\ IdleLI /\ IdleFetch /\ IdleRefine
    /\ layerInfos = MakeInfos(SubLayers1)
    /\ attribIndexes = Ascending(LeafIds(layerInfos))
    /\ config = <<>>
    /\ query = NoQuery /\ basicFC = <<>> /\ wmsFC = <<>> /\ ident = <<>>
    /\ featRec = <<>> /\ copies = <<>>
    /\ simpleRec = [hoverListeners |-> <<>>, last |-> NoHoverCall, prev |-> NoHoverCall]

AddHoverListener(cb) ==
    /\ Len(simpleRec.hoverListeners) < MaxListeners
    /\ simpleRec' = [hoverListeners |-> addHoverListener(simpleRec.hoverListeners, cb),
                     last |-> [op |-> "add", cb |-> cb, threw |-> FALSE,
                               before |-> simpleRec.hoverListeners],
                     prev |-> simpleRec.last]
    /\ SimpleFrame

RemoveHoverListener(cb) ==
    /\ \E r \in {removeHoverListener(simpleRec.hoverListeners, cb)} :
          simpleRec' = [hoverListeners |-> r.list,
                        last |-> [op |-> "remove", cb |-> cb, threw |-> r.threw,
                                  before |-> simpleRec.hoverListeners],
                        prev |-> simpleRec.last]
    /\ SimpleFrame

NextSimple ==
    \/ \E cb \in Listeners : AddHoverListener(cb)
    \/ \E cb \in Listeners : RemoveHoverListener(cb)

SpecSimple == InitSimple /\ [][NextSimple]_vars

\* the number of times cb is in the list, and the list without cb
Occurrences(list, cb) == Cardinality({k \in DOMAIN list : list[k] = cb})
Others(list, cb) == SelectSeq(list, LAMBDA x : x # cb)
AddedThenRemoved ==
    /\ simpleRec.prev.op = "add"
    /\ simpleRec.last.op = "remove"
    /\ simpleRec.last.cb = simpleRec.prev.cb

\* C38 as stated: removing a callback that is not registered raises an error
\* and leaves the list as it was; addHoverListener(cb) followed by
\* removeHoverListener(cb) leaves the list that was there before the two calls.
C38_AddRemoveRestoresList ==
    /\ (simpleRec.last.op = "remove" /\ indexOf(simpleRec.last.before, simpleRec.last.cb) < 0)
          => simpleRec.last.threw /\ simpleRec.hoverListeners = simpleRec.last.before
    /\ AddedThenRemoved =>
          ~simpleRec.last.threw /\ simpleRec.hoverListeners = simpleRec.prev.before

\* C38 amended: removing a callback that is not registered raises an error and
\* leaves the list as it was; addHoverListener(cb) followed by
\* removeHoverListener(cb) does not raise, leaves every callback registered as
\* many times as before the two calls and the other callbacks in their order,
\* and leaves the very list of before when cb was not registered before.
C38_AddRemoveRestoresListeners ==
    /\ (simpleRec.last.op = "remove" /\ indexOf(simpleRec.last.before, simpleRec.last.cb) < 0)
          => simpleRec.last.threw /\ simpleRec.hoverListeners = simpleRec.last.before
    /\ AddedThenRemoved =>
          /\ ~simpleRec.last.threw
          /\ \A cb \in Listeners :
                Occurrences(simpleRec.hoverListeners, cb) =
                Occurrences(simpleRec.prev.before, cb)
          /\ Others(simpleRec.hoverListeners, simpleRec.last.cb) =
             Others(simpleRec.prev.before, simpleRec.last.cb)
          /\ Occurrences(simpleRec.prev.before, simpleRec.last.cb) = 0
                => simpleRec.hoverListeners = simpleRec.prev.before

C38_Witness ==
    /\ AddedThenRemoved
    /\ simpleRec.prev.before = <<"cb1", "cb2">>
    /\ simpleRec.last.cb = "cb1"
    /\ simpleRec.hoverListeners = <<"cb2", "cb1">>

(***************************************************************************)
(* FeatureRecord: root handle, asynchronous data, hover events             *)
(***************************************************************************)
\* the mouse-over events the layer reports, numbered as they come
Events == {1, 2}
FeatListeners == {"cb1"}
FeatLayerDataOutcomes ==
    {[ok |-> TRUE, geometryType |-> g] : g \in GeomTypes}
    \cup {[ok |-> FALSE, geometryType |-> ""]}
NoTips == [ev \in Events |-> "none"]

\* new FeatureRecord(...): a placeholder under '0', nothing fetched; <<>> is
\* undefined. handles is the heap of LayerInterface objects the record made,
\* rootProxy a position in it (0: not set), returned the positions getProxy
\* has handed out
FeatureRecord(attribIndex) ==
    [defaultFC |-> "0", fcKind |-> "placeholder", attribIndex |-> attribIndex,
     geometryType |-> <<>>, fcount |-> <<>>,
     handles |-> <<>>, rootProxy |-> 0, returned |-> {},
     loaded |-> FALSE, ld |-> "none", count |-> "none", settled |-> <<>>,
     ldValue |-> <<>>, countValue |-> <<>>,
     hoverListeners |-> <<>>, delivered |-> <<>>, over |-> {}, out |-> {},
     tips |-> NoTips]

\* FeatureRecord.getProxy
featGetProxy(rec) ==
    IF rec.rootProxy = 0
    THEN [rec EXCEPT !.handles = Append(@, convertToFeatureLayer(
                                               LayerInterface(RecordSource),
                                               RecordSource)),
                     !.rootProxy = Len(rec.handles) + 1,
                     !.returned = @ \cup {Len(rec.handles) + 1}]
    ELSE [rec EXCEPT !.returned = @ \cup {rec.rootProxy}]

\* reading geometryType or featureCount through a handle of the record:
\* featureGetGeometryType is this._source.getGeomType(), featureGetFeatureCount
\* is this._source.featureCount, the standard getters return undefined
featRead(h, rec, prop) ==
    IF h.ops[prop] = "feature"
    THEN IF prop = "geometryType" THEN rec.geometryType ELSE rec.fcount
    ELSE <<>>

\* FeatureRecord.onLoad: the attributed Feature-Class State replaces the
\* placeholder and the two fetches start
featOnLoad(rec) ==
    [rec EXCEPT !.defaultFC = rec.attribIndex, !.fcKind = "attrib",
                !.loaded = TRUE, !.ld = "pending", !.count = "pending"]

\* aFC.getLayerData().then(ld => { this._geometryType = ld.geometryType; })
featThenLayerData(rec, outcome) ==
    IF outcome.ok
    THEN [rec EXCEPT !.ld = "fulfilled", !.ldValue = <<outcome.geometryType>>,
                     !.geometryType = <<outcome.geometryType>>,
                     !.settled = Append(@, "ld")]
    ELSE [rec EXCEPT !.ld = "rejected", !.settled = Append(@, "ld")]

\* this.getFeatureCount().then(fc => { this._fcount = fc; })
featThenFeatureCount(rec, outcome) ==
    IF outcome.ok
    THEN [rec EXCEPT !.count = "fulfilled", !.countValue = <<outcome.value>>,
                     !.fcount = <<outcome.value>>,
                     !.settled = Append(@, "count")]
    ELSE [rec EXCEPT !.count = "rejected", !.settled = Append(@, "count")]

\* this._fireEvent(handlers, bundle): every handler is called with the bundle;
\* delivered keeps the bundles that reached a handler
fireEvent(delivered, handlers, bundle) ==
    IF handlers = <<>> THEN delivered
    ELSE Append(delivered, bundle)

\* faulty variant: no test of the listener list
onMouseOver_Always(rec, ev) ==
    [rec EXCEPT !.over = @ \cup {ev},
                !.delivered = fireEvent(@, rec.hoverListeners,
                                        [type |-> "mouseOver", target |-> ev]),
                !.tips[ev] = "layerData"]

\* FeatureRecord.onMouseOver up to its return: tips[ev] is where the promise
\* chain of the event stands
onMouseOver(rec, ev) ==
    IF Len(rec.hoverListeners) > 0
    THEN [rec EXCEPT !.over = @ \cup {ev},
                     !.delivered = fireEvent(@, rec.hoverListeners,
                                             [type |-> "mouseOver", target |-> ev]),
                     !.tips[ev] = "layerData"]
    ELSE [rec EXCEPT !.over = @ \cup {ev}]

\* the first callback of the chain: getAttribs is called
thenTipLayerData(rec, ev) == [rec EXCEPT !.tips[ev] = "attribs"]

\* the second callback of the chain; it throws when the graphic's object id
\* is not in the attributes
thenTipAttribs(rec, ev, found) ==
    IF found
    THEN [rec EXCEPT !.delivered = fireEvent(@, rec.hoverListeners,
                                             [type |-> "tipLoaded", target |-> ev]),
                     !.tips[ev] = "loaded"]
    ELSE [rec EXCEPT !.tips[ev] = "failed"]

\* FeatureRecord.onMouseOut
onMouseOut(rec, ev) ==
    [rec EXCEPT !.out = @ \cup {ev},
                !.delivered = fireEvent(@, rec.hoverListeners,
                                        [type |-> "mouseOut", target |-> ev])]

FeatFrame == UNCHANGED <<recordVars, config, configIsComplete, subConfigs, lastCall,
                         liVars, fetchVars, refineVars, query, basicFC, wmsFC,
                         ident, simpleRec, copies>>

InitFeature ==
    /\ InitRecord /\ IdleLI /\ IdleFetch /\ IdleRefine
    /\ layerInfos = MakeInfos(SubLayers1)
    /\ attribIndexes = Ascending(LeafIds(layerInfos))
    /\ config = <<>>
    /\ query = NoQuery /\ basicFC = <<>> /\ wmsFC = <<>> /\ ident = <<>>
    /\ simpleRec = <<>> /\ copies = <<>>
    /\ featRec = FeatureRecord("0")

FeatGetProxy ==
    /\ featRec' = featGetProxy(featRec)
    /\ FeatFrame

FeatOnLoad ==
    /\ ~featRec.loaded
    /\ featRec' = featOnLoad(featRec)
    /\ FeatFrame

FeatLayerDataSettles(outcome) ==
    /\ featRec.ld = "pending"
    /\ featRec' = featThenLayerData(featRec, outcome)
    /\ FeatFrame

FeatFeatureCountSettles(outcome) ==
    /\ featRec.count = "pending"
    /\ featRec' = featThenFeatureCount(featRec, outcome)
    /\ FeatFrame

\* the hover listener list is the layer record's; addHoverListener pushes
FeatAddHoverListener(cb) ==
    /\ Len(featRec.hoverListeners) < Cardinality(FeatListeners)
    /\ featRec' = [featRec EXCEPT !.hoverListeners = addHoverListener(@, cb)]
    /\ FeatFrame

FeatRemoveHoverListener(cb) ==
    /\ ~removeHoverListener(featRec.hoverListeners, cb).threw
    /\ featRec' = [featRec EXCEPT !.hoverListeners = removeHoverListener(@, cb).list]
    /\ FeatFrame

\* the layer reports the mouse entering a graphic: events are numbered as
\* they come
OnMouseOver ==
    /\ featRec.loaded
    /\ Cardinality(featRec.over) < Cardinality(Events)
    /\ featRec' = onMouseOver(featRec, Cardinality(featRec.over) + 1)
    /\ FeatFrame

\* the mouse leaves a graphic it had entered
OnMouseOut(ev) ==
    /\ ev \in featRec.over \ featRec.out
    /\ featRec' = onMouseOut(featRec, ev)
    /\ FeatFrame

TipLayerDataArrives(ev) ==
    /\ featRec.tips[ev] = "layerData"
    /\ featRec.ld = "fulfilled"
    /\ featRec' = thenTipLayerData(featRec, ev)
    /\ FeatFrame

\* a rejected layer-data or attribute fetch ends the chain of the event
TipFetchRejects(ev) ==
    /\ \/ featRec.tips[ev] = "layerData" /\ featRec.ld = "rejected"
       \/ featRec.tips[ev] = "attribs"
    /\ featRec' = [featRec EXCEPT !.tips[ev] = "failed"]
    /\ FeatFrame

TipAttribsArrive(ev, found) ==
    /\ featRec.tips[ev] = "attribs"
    /\ featRec' = thenTipAttribs(featRec, ev, found)
    /\ FeatFrame

NextFeature ==
    \/ FeatGetProxy
    \/ FeatOnLoad
    \/ \E o \in FeatLayerDataOutcomes : FeatLayerDataSettles(o)
    \/ \E o \in CountOutcomes : FeatFeatureCountSettles(o)
    \/ \E cb \in FeatListeners : FeatAddHoverListener(cb)
    \/ \E cb \in FeatListeners : FeatRemoveHoverListener(cb)
    \/ OnMouseOver
    \/ \E ev \in Events : OnMouseOut(ev)
    \/ \E ev \in Events : TipLayerDataArrives(ev)
    \/ \E ev \in Events : TipFetchRejects(ev)
    \/ \E ev \in Events, found \in BOOLEAN : TipAttribsArrive(ev, found)

SpecFeature == InitFeature /\ [][NextFeature]_vars

\* C37: getProxy always hands out the one feature-layer handle of the record,
\* which is not a placeholder from the first call, before load too; read
\* through it, featureCount and geometryType are undefined until their own
\* fetch has resolved and the fetched value from then on, whichever of the two
\* fetches settles first.
C37_RootHandleReflectsFetches ==
    featRec.returned # {} =>
        /\ featRec.returned = {featRec.rootProxy}
        /\ Len(featRec.handles) = 1
        /\ LET h == featRec.handles[featRec.rootProxy]
           IN /\ ~h.isPlaceholder
              /\ h.source = RecordSource
              /\ featRead(h, featRec, "featureCount") =
                    (IF featRec.count = "fulfilled" THEN featRec.countValue ELSE <<>>)
              /\ featRead(h, featRec, "geometryType") =
                    (IF featRec.ld = "fulfilled" THEN featRec.ldValue ELSE <<>>)
              /\ featRec.count = "fulfilled" => featRec.countValue # <<>>
              /\ featRec.ld = "fulfilled" => featRec.ldValue # <<>>

C37_Witness ==
    /\ featRec # <<>>
    /\ featRec.returned # {}
    /\ featRec.settled = <<"count", "ld">>
    /\ featRec.count = "fulfilled" /\ featRec.ld = "fulfilled"
    /\ featRead(featRec.handles[1], featRec, "featureCount") = <<7>>
    /\ featRead(featRec.handles[1], featRec, "geometryType") = <<"esriGeometryPoint">>

\* positions in the delivery log
Delivered(type, ev) ==
    {k \in DOMAIN featRec.delivered :
        featRec.delivered[k].type = type /\ featRec.delivered[k].target = ev}

\* 'mouseOver' comes before 'tipLoaded' of the same event; without a
\* listener a mouse-over delivers nothing and starts no fetch
OverBeforeTip ==
    \A ev \in Events :
        /\ \A t \in Delivered("tipLoaded", ev) :
              \E o \in Delivered("mouseOver", ev) : o < t
        /\ ev \in featRec.over /\ Delivered("mouseOver", ev) = {}
              => featRec.tips[ev] = "none" /\ Delivered("tipLoaded", ev) = {}
QuietWithoutListener ==
    \A ev \in Events :
        (/\ featRec.hoverListeners = <<>>
         /\ ev \notin featRec.over
         /\ ev \in featRec'.over)
            => /\ featRec'.delivered = featRec.delivered
               /\ featRec'.tips = featRec.tips

\* C39 as stated: 'mouseOver' before 'tipLoaded' of the same event, no
\* 'tipLoaded' of an event after its 'mouseOut' was delivered, and nothing
\* delivered or fetched for a mouse-over without a listener.
C39_NoTipAfterMouseOut ==
    featRec # <<>> =>
        /\ OverBeforeTip
        /\ \A ev \in Events :
              \A t \in Delivered("tipLoaded", ev), m \in Delivered("mouseOut", ev) :
                 t < m

\* C39 amended: 'mouseOver' is delivered before 'tipLoaded' of the same
\* event, at most one 'tipLoaded' is delivered per event and it carries the
\* target of its event, a 'tipLoaded' may follow the 'mouseOut' of its event,
\* and a mouse-over without a listener delivers nothing and starts no fetch.
C39_MouseOverBeforeTip ==
    /\ [](featRec # <<>> =>
             /\ OverBeforeTip
             /\ \A ev \in Events : Cardinality(Delivered("tipLoaded", ev)) <= 1
             /\ \A k \in DOMAIN featRec.delivered :
                   featRec.delivered[k].target \in featRec.over)
    /\ [][featRec # <<>> => QuietWithoutListener]_vars

C39_Witness ==
    /\ featRec # <<>>
    /\ \E ev \in Events :
          \E o \in Delivered("mouseOver", ev), m \in Delivered("mouseOut", ev),
             t \in Delivered("tipLoaded", ev) : o < m /\ m < t

(***************************************************************************)
(* Sub-config collation at the level of object references                  *)
(***************************************************************************)
\* entries and states are heaps, a reference is a position; an entry object
\* holds its scalar properties in e and the reference of its state object in
\* state (0: no state property); caller lists the entry objects of
\* this.config.layerEntries, table is subConfigs
CopyIds == {toString(i) : i \in ReqIds}

\* the objects of the configuration handed to the constructor
RECURSIVE callerHeap(_, _)
callerHeap(layerEntries, h) ==
    IF layerEntries = <<>> THEN h
    ELSE LET le == Head(layerEntries)
             own == "state" \in le.has
             states == IF own THEN Append(h.states, le.state) ELSE h.states
             obj == [e |-> [le EXCEPT !.state = NoState],
                     state |-> IF own THEN Len(states) ELSE 0]
         IN callerHeap(Tail(layerEntries),
                       [h EXCEPT !.states = states,
                                 !.entries = Append(@, obj),
                                 !.caller = Append(@, Len(h.entries) + 1)])

\* the entry as a value: its scalars and what its state object holds
deref(h, ref) ==
    LET obj == h.entries[ref]
    IN [obj.e EXCEPT !.state = IF obj.state = 0 THEN NoState ELSE h.states[obj.state]]

\* faulty variant: the table takes the caller's entry object itself
jsonCopyObject_Alias(h, ref) == [heap |-> h, ref |-> ref]

\* JSON.parse(JSON.stringify(le)): a new entry object, and a new state object
\* when the entry has one
jsonCopyObject(h, ref) ==
    LET v == jsonCopy(deref(h, ref))
        own == "state" \in v.has
        states == IF own THEN Append(h.states, v.state) ELSE h.states
        obj == [e |-> [v EXCEPT !.state = NoState],
                state |-> IF own THEN Len(states) ELSE 0]
    IN [heap |-> [h EXCEPT !.states = states, !.entries = Append(@, obj)],
        ref |-> Len(h.entries) + 1]

\* this.config.layerEntries.forEach(le => { subConfigs[...] = {...} })
RECURSIVE collateObjects(_, _, _)
collateObjects(h, refs, complete) ==
    IF refs = <<>> THEN h
    ELSE LET c == jsonCopyObject(h, Head(refs))
             id == toString(h.entries[Head(refs)].e.index)
         IN collateObjects(
                [c.heap EXCEPT !.table = (id :> [config |-> c.ref,
                                                 defaulted |-> complete]) @@ @],
                Tail(refs), complete)

\* fetchSubConfig on the objects: Object.assign({}, dummyState) is a new state
\* object on every defaulting
fetchSubConfigObject(h, id, serverName) ==
    IF id \in DOMAIN h.table
    THEN LET ref == h.table[id].config
         IN IF ~h.table[id].defaulted
            THEN LET filled == fillBlanks(h.entries[ref].e, serverName)
                 IN [h EXCEPT !.states = Append(@, dummyState),
                              !.entries[ref] =
                                  [e |-> [filled EXCEPT !.state = NoState],
                                   state |-> Len(h.states) + 1],
                              !.table[id].defaulted = TRUE]
            ELSE h
    ELSE LET newConfig == newSubConfig(id, serverName)
         IN [h EXCEPT !.states = Append(@, dummyState),
                      !.entries = Append(@, [e |-> [newConfig EXCEPT !.state = NoState],
                                             state |-> Len(h.states) + 1]),
                      !.table = (id :> [config |-> Len(h.entries) + 1,
                                        defaulted |-> TRUE]) @@ @]

CopyFrame == UNCHANGED <<recordVars, config, configIsComplete, subConfigs, lastCall,
                         liVars, fetchVars, refineVars, query, basicFC, wmsFC,
                         ident, simpleRec, featRec>>

\* the record as constructed: the caller's objects, an empty table; orig
\* keeps the caller's objects as they were handed in
InitCopy ==
    /\ \E ci \in ConfigInputs :
          /\ config = ci.layerEntries
          /\ configIsComplete = ci.complete
    /\ subConfigs = collateSubConfigs(config, configIsComplete)
    /\ fetchHist = [id \in FetchIds |-> <<>>]
    /\ lastFetch = NoFetch
    /\ layerInfos = MakeInfos(SubLayers1)
    /\ attribIndexes = <<>>
    /\ proxies = [id \in StrIds |-> 0]
    /\ handles = <<>>
    /\ pfcs = <<>>
    /\ featClasses = EmptyMap
    /\ childTree = <<>>
    /\ treeBuilt = FALSE
    /\ visCalls = <<>>
    /\ lastCall = Call("new", "", 0, FALSE)
    /\ issued = [id \in StrIds |-> NotIssued]
    /\ IdleLI
    /\ IdleRefine
    /\ query = NoQuery /\ basicFC = <<>> /\ wmsFC = <<>> /\ ident = <<>>
    /\ simpleRec = <<>> /\ featRec = <<>>
    /\ \E h \in {callerHeap(config, [entries |-> <<>>, states |-> <<>>,
                                     caller |-> <<>>, table |-> EmptyMap])} :
          copies = h @@ [orig |-> [entries |-> h.entries, states |-> h.states],
                         collated |-> FALSE]

\* onLoad up to the end of the collation
CollateObjects ==
    /\ ~copies.collated
    /\ copies' = [collateObjects(copies, copies.caller, configIsComplete)
                     EXCEPT !.collated = TRUE]
    /\ CopyFrame

\* one fetchSubConfig call of onLoad, with the name the server has for id
FetchSubConfigObject(id) ==
    /\ copies.collated
    /\ copies' = fetchSubConfigObject(copies, id, SrvNames[parseInt(id) + 1])
    /\ CopyFrame

NextCopy ==
    \/ CollateObjects
    \/ \E id \in CopyIds : FetchSubConfigObject(id)

SpecCopy == InitCopy /\ [][NextCopy]_vars

\* obj.visibility = value on the state object at ref
assignVisibility(states, ref, value) ==
    [states EXCEPT ![ref].visibility = value]
TableRefs == {copies.table[id].config : id \in DOMAIN copies.table}
CallerRefs == {copies.caller[k] : k \in DOMAIN copies.caller}
StateOf(ref) == copies.entries[ref].state

\* C35: onLoad leaves the caller's configuration as it was at construction:
\* every entry object of config.layerEntries has the properties and values it
\* had, the sub-config table holds objects of its own, and no state object of
\* a sub-config is the state object of another sub-config or of a caller's
\* entry, so that assigning to one index's state changes no other state.
C35_CallerConfigUntouched ==
    copies # <<>> =>
        /\ \A k \in DOMAIN copies.caller :
              /\ copies.entries[copies.caller[k]] = copies.orig.entries[copies.caller[k]]
              /\ deref(copies, copies.caller[k]) = config[k]
        /\ \A r \in DOMAIN copies.orig.states : copies.states[r] = copies.orig.states[r]
        /\ TableRefs \cap CallerRefs = {}
        /\ \A id \in DOMAIN copies.table :
              LET r == StateOf(copies.table[id].config)
              IN r # 0 =>
                   /\ \A c \in CallerRefs : StateOf(c) # r
                   /\ \A other \in DOMAIN copies.table \ {id} :
                         StateOf(copies.table[other].config) # r
                   /\ \A value \in BOOLEAN :
                         LET after == [copies EXCEPT
                                          !.states = assignVisibility(@, r, value)]
                         IN /\ \A c \in CallerRefs : deref(after, c) = deref(copies, c)
                            /\ \A other \in DOMAIN copies.table \ {id} :
                                  deref(after, copies.table[other].config) =
                                  deref(copies, copies.table[other].config)

C35_Witness ==
    /\ copies # <<>>
    /\ copies.collated
    /\ ~configIsComplete
    /\ Len(config) = 2
    /\ \A k \in DOMAIN config : "state" \in config[k].has
    /\ \A id \in CopyIds : id \in DOMAIN copies.table /\ copies.table[id].defaulted

====
